---- MODULE Spec2Model ----
(***************************************************************************)
(* cast.ts: composable runtime parsers (src/core.ts, lines 331-2369).      *)
(*                                                                         *)
(* The parser objects built by the factory functions live in `heap`, a     *)
(* sequence of parser records addressed by their index: object identity   *)
(* matters because optional() tags the parser it is given in place.        *)
(* `last` records the latest library call and what it returned.            *)
(* `running` holds the parse calls in progress, each with its own locals.   *)
(*                                                                         *)
(* JavaScript values are records [t, n, s, ks, xs]:                        *)
(*   t  the kind, n the number (or 0/1 for a boolean), s the characters of *)
(*   a string (of a number: its fraction digits, none for an integer),     *)
(*   ks/xs the own keys (in enumeration order) and the values of an        *)
(*   object, xs the elements of an array.                                  *)
(* Texts (error messages, type names, context names) are sequences of      *)
(* tokens; the rendered text is the tokens joined by single spaces, except *)
(* inside a quoted name, whose tokens are glued.                           *)
(***************************************************************************)
EXTENDS Integers, Sequences, FiniteSets, TLC

VARIABLES heap, last, running

vars == <<heap, last, running>>

(***************************************************************************)
(* Bounds of the model                                                     *)
(***************************************************************************)
MaxParsers == 3
MaxLen == 2

(***************************************************************************)
(* JavaScript values                                                       *)
(***************************************************************************)
Val(t, n, s, ks, xs) == [t |-> t, n |-> n, s |-> s, ks |-> ks, xs |-> xs]

Undefined == Val("undefined", 0, <<>>, <<>>, <<>>)
Null == Val("null", 0, <<>>, <<>>, <<>>)
NaN == Val("NaN", 0, <<>>, <<>>, <<>>)
Num(n) == Val("number", n, <<>>, <<>>, <<>>)
\* a non-integer number n.digits (n >= 0, digits not ending in 0)
Frac(n, digits) == Val("number", n, digits, <<>>, <<>>)
Str(s) == Val("string", 0, s, <<>>, <<>>)
Bool(b) == Val("boolean", IF b THEN 1 ELSE 0, <<>>, <<>>, <<>>)
Arr(xs) == Val("array", 0, <<>>, <<>>, xs)
\* a Date instance with the given time value (milliseconds since the epoch),
\* and the Date instance whose time value is NaN
DateOf(time) == Val("date", time, <<>>, <<>>, <<>>)
InvalidDate == Val("date", 0, <<"Invalid Date">>, <<>>, <<>>)
Obj(ks, xs) == Val("object", 0, <<>>, ks, xs)

\* typeof input
TypeOf(v) ==
    CASE v.t = "NaN" -> "number"
      [] v.t \in {"null", "array", "date"} -> "object"
      [] OTHER -> v.t

\* key in input, for an input whose typeof is 'object' (own keys only: the
\* inputs of the model are plain decoded data without prototype overrides)
HasKey(v, key) == \E i \in 1..Len(v.ks) : v.ks[i] = key

\* input[key]
GetKey(v, key) ==
    IF HasKey(v, key)
    THEN v.xs[CHOOSE i \in 1..Len(v.ks) : v.ks[i] = key]
    ELSE Undefined

(***************************************************************************)
(* Strings and numbers                                                     *)
(***************************************************************************)
DigitChars == <<"0", "1", "2", "3", "4", "5", "6", "7", "8", "9">>

IsDigit(c) == \E d \in 1..10 : DigitChars[d] = c

DigitValue(c) == (CHOOSE d \in 1..10 : DigitChars[d] = c) - 1

IsSpace(c) == c = " "

\* String(n) for an integer n
RECURSIVE NatToString(_)
NatToString(n) ==
    IF n < 10 THEN <<DigitChars[n + 1]>>
    ELSE NatToString(n \div 10) \o <<DigitChars[(n % 10) + 1]>>

NumberToString(n) == IF n < 0 THEN <<"-">> \o NatToString(-n) ELSE NatToString(n)

\* String(value) for a number value
NumberString(value) ==
    NumberToString(value.n) \o (IF value.s # <<>> THEN <<".">> \o value.s ELSE <<>>)

\* Number.isInteger(value) for a number value
IsInteger(value) == value.t = "number" /\ value.s = <<>>

\* value < bound and value > bound for a number value and an integer bound
LessThan(value, bound) == value.n < bound

GreaterThan(value, bound) == value.n > bound \/ (value.n = bound /\ value.s # <<>>)

\* input.trim()
RECURSIVE TrimLeft(_)
TrimLeft(s) == IF s # <<>> /\ IsSpace(Head(s)) THEN TrimLeft(Tail(s)) ELSE s

RECURSIVE TrimRight(_)
TrimRight(s) ==
    IF s # <<>> /\ IsSpace(s[Len(s)]) THEN TrimRight(SubSeq(s, 1, Len(s) - 1)) ELSE s

Trim(s) == TrimRight(TrimLeft(s))

RECURSIVE DigitsValue(_, _)
DigitsValue(s, acc) ==
    IF s = <<>> THEN acc ELSE DigitsValue(Tail(s), acc * 10 + DigitValue(Head(s)))

\* the fraction digits without their trailing zeros
RECURSIVE StripZeros(_)
StripZeros(digits) ==
    IF digits # <<>> /\ digits[Len(digits)] = "0"
    THEN StripZeros(SubSeq(digits, 1, Len(digits) - 1)) ELSE digits

AllDigits(t) == \A i \in 1..Len(t) : IsDigit(t[i])

\* +input for a string input, over the strings of the model (decimal digits,
\* a decimal point, letters and blanks): blank strings give 0, digit
\* strings their value, digits around one point the decimal number,
\* anything else NaN
ToNumber(s) ==
    LET t == Trim(s)
        points == {i \in 1..Len(t) : t[i] = "."}
    IN  IF t = <<>> THEN Num(0)
        ELSE IF AllDigits(t) THEN Num(DigitsValue(t, 0))
        ELSE IF Cardinality(points) = 1 /\ Len(t) > 1
        THEN LET i == CHOOSE i \in points : TRUE
                 whole == SubSeq(t, 1, i - 1)
                 digits == SubSeq(t, i + 1, Len(t))
             IN  IF AllDigits(whole) /\ AllDigits(digits)
                 THEN Frac(DigitsValue(whole, 0), StripZeros(digits))
                 ELSE NaN
        ELSE NaN

(***************************************************************************)
(* Dates. The dates of the model lie in January 1970 and the program runs  *)
(* in the UTC time zone, so the local fields of a Date are the fields of   *)
(* its time value. A date or time string is the sequence of its characters. *)
(***************************************************************************)
\* Number.isNaN(date.getTime())
IsInvalidDate(date) == date.s # <<>>

\* date.getDate(), getHours(), getMinutes(), getSeconds(), getMilliseconds()
getDate(date) == (date.n \div 86400000) + 1
getHours(date) == (date.n \div 3600000) % 24
getMinutes(date) == (date.n \div 60000) % 60
getSeconds(date) == (date.n \div 1000) % 60
getMilliseconds(date) == date.n % 1000

\* src/core.ts:1497 d2
d2(n) == IF n < 10 THEN <<"0">> \o NatToString(n) ELSE NatToString(n)

\* src/core.ts:1503 d3
d3(n) ==
    IF n < 10 THEN <<"0", "0">> \o NatToString(n)
    ELSE IF n < 100 THEN <<"0">> \o NatToString(n)
    ELSE NatToString(n)

\* the year and month every date of the model has: '1970-01-'
YearMonth == <<"1", "9", "7", "0", "-", "0", "1", "-">>

\* src/core.ts:1488 toDateString
toDateString(date) == YearMonth \o d2(getDate(date))

\* src/core.ts:1693 toTimeString
toTimeString(date) == d2(getHours(date)) \o <<":">> \o d2(getMinutes(date))

\* date.toISOString()
toISOString(date) ==
    toDateString(date) \o <<"T">> \o toTimeString(date) \o <<":">>
    \o d2(getSeconds(date)) \o <<".">> \o d3(getMilliseconds(date)) \o <<"Z">>

\* the number two digits at s[i], s[i + 1] denote, -1 when they are no digits
TwoDigits(s, i) ==
    IF i + 1 <= Len(s) /\ IsDigit(s[i]) /\ IsDigit(s[i + 1])
    THEN DigitValue(s[i]) * 10 + DigitValue(s[i + 1])
    ELSE -1

\* the number that up to three digits from s[i] on denote (\d{1,3}), -1 when
\* s[i] is no digit
UpToThreeDigits(s, i) ==
    IF i > Len(s) \/ ~IsDigit(s[i]) THEN -1
    ELSE IF i + 1 > Len(s) \/ ~IsDigit(s[i + 1]) THEN DigitValue(s[i])
    ELSE IF i + 2 > Len(s) \/ ~IsDigit(s[i + 2])
    THEN DigitValue(s[i]) * 10 + DigitValue(s[i + 1])
    ELSE DigitValue(s[i]) * 100 + DigitValue(s[i + 1]) * 10 + DigitValue(s[i + 2])

\* /^\d{4}-\d{1,2}-\d{1,2}/ on the strings of the model, whose months and
\* days have two digits: the string starts with a date
StartsWithDate(s) ==
    /\ Len(s) >= 10
    /\ \A i \in {1, 2, 3, 4, 6, 7, 9, 10} : IsDigit(s[i])
    /\ s[5] = "-"
    /\ s[8] = "-"

\* new Date(string) on the strings of the model: 'yyyy-mm-dd' alone or
\* followed by ' ' or 'T' and 'hh:mm', 'hh:mm:ss' or 'hh:mm:ss.mmm', in
\* January 1970; every other string gives the invalid Date
NewDate(s) ==
    LET n == Len(s)
        day == TwoDigits(s, 9)
        h == IF n = 10 THEN 0 ELSE TwoDigits(s, 12)
        m == IF n = 10 THEN 0 ELSE TwoDigits(s, 15)
        sec == IF n <= 16 THEN 0 ELSE TwoDigits(s, 18)
        ms == IF n <= 19 THEN 0 ELSE UpToThreeDigits(s, 21)
        shaped ==
            /\ n \in {10, 16, 19, 23}
            /\ StartsWithDate(s)
            /\ SubSeq(s, 1, 8) = YearMonth
            /\ n > 10 => s[11] \in {" ", "T"} /\ s[14] = ":"
            /\ n > 16 => s[17] = ":"
            /\ n > 19 => s[20] = "." /\ \A i \in 21..23 : IsDigit(s[i])
    IN  IF shaped /\ day \in 1..28 /\ h \in 0..23 /\ m \in 0..59 /\ sec \in 0..59
        THEN DateOf((((day - 1) * 24 + h) * 60 + m) * 60000 + sec * 1000 + ms)
        ELSE InvalidDate

\* the characters of date and time strings in the order of their codes
CharOrder ==
    <<" ", "-", ".", "0", "1", "2", "3", "4", "5", "6", "7", "8", "9", ":", "T", "Z">>

CharCode(c) == CHOOSE i \in 1..Len(CharOrder) : CharOrder[i] = c

\* a < b for two strings
RECURSIVE StringLess(_, _)
StringLess(a, b) ==
    IF b = <<>> THEN FALSE
    ELSE IF a = <<>> THEN TRUE
    ELSE IF Head(a) = Head(b) THEN StringLess(Tail(a), Tail(b))
    ELSE CharCode(Head(a)) < CharCode(Head(b))

\* input == '' (loose equality): '' itself, 0, false and the empty array
LooselyEmpty(input) ==
    \/ input = Str(<<>>)
    \/ input.t = "number" /\ input.n = 0 /\ input.s = <<>>
    \/ input.t = "boolean" /\ input.n = 0
    \/ input = Arr(<<>>)

(***************************************************************************)
(* Texts, contexts and errors                                              *)
(***************************************************************************)
\* JSON.stringify of a name or key
Quote(text) == <<"\"">> \o text \o <<"\"">>

\* src/core.ts:424 toType
toType(input) ==
    CASE input.t = "null" -> <<"null">>
      [] input.t = "string" /\ input.s = <<>> -> <<"empty string">>
      [] input.t = "boolean" /\ input.n = 1 -> <<"boolean (true)">>
      [] input.t = "boolean" /\ input.n = 0 -> <<"boolean (false)">>
      [] input.t = "NaN" -> <<"NaN">>
      [] input.t = "array" -> <<"array">>
      [] input.t = "date" -> <<"date">>
      [] OTHER -> <<TypeOf(input)>>

\* a ParserContext; an absent field is the empty text (the code tests every
\* field by truthiness, so undefined and '' are not told apart)
Ctx(name, typePrefix, reasonSuffix, overrideType) ==
    [name |-> name, typePrefix |-> typePrefix, reasonSuffix |-> reasonSuffix,
     overrideType |-> overrideType]

EmptyCtx == Ctx(<<>>, <<>>, <<>>, <<>>)

\* src/core.ts:2182 concat
concat(a, b) == IF a # <<>> /\ b # <<>> THEN a \o b ELSE IF a # <<>> THEN a ELSE b

\* a variant of the message that shows the name without its quotes
ErrorMessageUnquoted(name, typePrefix, expectedType, reason, reasonSuffix) ==
    <<"Invalid">>
    \o (IF typePrefix # <<>> THEN typePrefix ELSE <<>>)
    \o expectedType
    \o name
    \o <<",">> \o reason
    \o (IF reasonSuffix # <<>> THEN reasonSuffix ELSE <<>>)

\* src/core.ts:367 InvalidInputError.constructor: the message
ErrorMessage(name, typePrefix, expectedType, reason, reasonSuffix) ==
    <<"Invalid">>
    \o (IF typePrefix # <<>> THEN typePrefix ELSE <<>>)
    \o expectedType
    \o (IF name # <<>> THEN Quote(name) ELSE <<>>)
    \o <<",">> \o reason
    \o (IF reasonSuffix # <<>> THEN reasonSuffix ELSE <<>>)

InvalidInputError(name, typePrefix, expectedType, reason, reasonSuffix, errors) ==
    [name |-> name, typePrefix |-> typePrefix, expectedType |-> expectedType,
     reason |-> reason, reasonSuffix |-> reasonSuffix, errors |-> errors,
     message |-> ErrorMessage(name, typePrefix, expectedType, reason, reasonSuffix),
     status |-> 400, statusCode |-> 400]

NoError ==
    [name |-> <<>>, typePrefix |-> <<>>, expectedType |-> <<>>, reason |-> <<>>,
     reasonSuffix |-> <<>>, errors |-> <<>>, message |-> <<>>, status |-> 0,
     statusCode |-> 0]

\* the error a parser throws from its context
Invalid(context, expectedType, reason) ==
    InvalidInputError(context.name, context.typePrefix, expectedType, reason,
                      context.reasonSuffix, <<>>)

(***************************************************************************)
(* Outcomes of parse: a returned value or a thrown error, with the list of  *)
(* parse calls made on child parsers, in order ([p, input, context])       *)
(***************************************************************************)
Return(value, calls) == [ok |-> TRUE, value |-> value, err |-> NoError, calls |-> calls]

Throw(err, calls) == [ok |-> FALSE, value |-> Undefined, err |-> err, calls |-> calls]

Call(p, input, context) == [p |-> p, input |-> input, context |-> context]

(***************************************************************************)
(* Parser objects                                                          *)
(*   kind      the factory that built it                                   *)
(*   optional  the tag set by optional()                                   *)
(*   checkbox  the tag set by checkbox()                                   *)
(*   keys/ids  object: the declared keys, in declaration order, and the    *)
(*             field parsers; array/nullable: ids = <<element parser>>;    *)
(*             or: ids = the candidates in array order                     *)
(*   options   the options the factory was given (None: option not set)    *)
(*   type      the `type` property; of an object parser, the memo of       *)
(*             getType(), empty until `type` is first read                 *)
(***************************************************************************)
None == -1

\* StringOptions (match is left out: the strings of the model carry no
\* pattern), NumberOptions (readable and locale are left out: the numbers of
\* the model have at most three fraction digits, on which nearestNumber is
\* the identity), the toFixed and toPrecision of FloatOptions,
\* ArrayOptions, the expectedValue of boolean (0: false, 1: true) and the
\* list of values() or the one value of literal(), and the sampleValue of
\* CustomSampleOptions (undefined: not given) and the protocol, protocols
\* and domain of UrlOptions (undefined: not given), and the min, max
\* (dateMin, dateMax) and precision of DateOptions, DateStringOptions,
\* TimeStringOptions and TimestampOptions (undefined or '': not given), in
\* one record
NoOptions ==
    [minLength |-> None, maxLength |-> None, maybeSingle |-> FALSE,
     nonEmpty |-> FALSE, trim |-> TRUE, min |-> None, max |-> None,
     expectedValue |-> None, values |-> <<>>, sampleValue |-> Undefined,
     protocol |-> Undefined, protocols |-> Undefined, domain |-> Undefined,
     dateMin |-> Undefined, dateMax |-> Undefined, precision |-> "",
     toFixed |-> None, toPrecision |-> None]

ArrayOptions(minLength, maxLength, maybeSingle) ==
    [NoOptions EXCEPT !.minLength = minLength, !.maxLength = maxLength,
                      !.maybeSingle = maybeSingle]

StringOptions(minLength, maxLength, nonEmpty, trim) ==
    [NoOptions EXCEPT !.minLength = minLength, !.maxLength = maxLength,
                      !.nonEmpty = nonEmpty, !.trim = trim]

ParserObject(kind, keys, ids, options, type) ==
    [kind |-> kind, optional |-> FALSE, checkbox |-> kind = "checkbox",
     keys |-> keys, ids |-> ids, options |-> options, type |-> type]

\* a variant of isOptional that recognises no parser as optional
isOptionalNever(parser) == FALSE

\* src/core.ts:1101 isOptional
isOptional(parser) == parser.optional

\* a variant of isCheckbox that recognises no parser as a checkbox
isCheckboxNever(parser) == FALSE

\* src/core.ts:1216 isCheckbox
isCheckbox(parser) == parser.checkbox

\* a variant of isSimpleType that takes every type for simple
isSimpleTypeAlways(type) == TRUE

\* src/core.ts:2199 isSimpleType: /^\w+$/ over the types of the model: one
\* word, or the digits of one integer
isSimpleType(type) ==
    \/ Len(type) = 1 /\ type[1] \in {"string", "number", "boolean", "null", "true",
                                      "false"}
    \/ type # <<>> /\ AllDigits(type)

\* src/core.ts:2345 fieldNameSuffices
fieldNameSuffices == {"$enums", "$enum", "$nullable", "$null", "$optional", "?"}

\* src/core.ts:2353 toFieldName: a key is a sequence of tokens, a suffix is
\* one token
RECURSIVE toFieldName(_)
toFieldName(fieldName) ==
    IF fieldName # <<>> /\ fieldName[Len(fieldName)] \in fieldNameSuffices
    THEN toFieldName(SubSeq(fieldName, 1, Len(fieldName) - 1))
    ELSE fieldName

\* key.match(/^[a-zA-Z0-9_]+$/): the tokens of a key other than the suffix
\* tokens are words
IsWordKey(key) == key # <<>> /\ \A i \in 1..Len(key) : key[i] \notin fieldNameSuffices

\* valueType.replace(/\n/g, '\n  ')
RECURSIVE Indent(_)
Indent(type) ==
    IF type = <<>> THEN <<>>
    ELSE IF Head(type) = "\n" THEN <<"\n", "  ">> \o Indent(Tail(type))
    ELSE <<Head(type)>> \o Indent(Tail(type))

\* src/core.ts:1049 object.getType, without the memo: the signature computed
\* from the field parsers as they are now
RECURSIVE getType(_, _)
RECURSIVE ObjectTypeFields(_, _, _, _)
\* parser.type as a read returns it
TypeRead(h, p) ==
    IF h[p].kind = "object" /\ h[p].type = <<>> THEN getType(h, p) ELSE h[p].type

ObjectTypeFields(h, p, needQuote, i) ==
    IF i > Len(h[p].keys) THEN <<>>
    ELSE LET name == toFieldName(h[p].keys[i])
             shown == IF needQuote THEN <<"'">> \o name \o <<"'">> ELSE name
             valueParser == h[p].ids[i]
             valueType == Indent(TypeRead(h, valueParser))
         IN  <<"\n", "  ">> \o shown
             \o (IF isOptional(h[valueParser]) THEN <<"?:">> ELSE <<":">>)
             \o valueType
             \o ObjectTypeFields(h, p, needQuote, i + 1)

getType(h, p) ==
    LET needQuote == \E i \in 1..Len(h[p].keys) : ~IsWordKey(toFieldName(h[p].keys[i]))
    IN  <<"{">> \o ObjectTypeFields(h, p, needQuote, 1) \o <<"\n", "}">>

\* the object parsers whose getType() runs when parser.type is read: the
\* parser itself and, through its fields, every object parser without a memo
RECURSIVE TypeReads(_, _)
TypeReads(h, p) ==
    IF h[p].kind = "object" /\ h[p].type = <<>>
    THEN {p} \cup UNION {TypeReads(h, h[p].ids[i]) : i \in 1..Len(h[p].ids)}
    ELSE {}

\* the heap after parser.type was read for every p in ps: getType() stores
\* its result in the closure of the object parser
ReadTypes(h, ps) ==
    LET hit == UNION {TypeReads(h, p) : p \in ps}
    IN  [q \in 1..Len(h) |-> IF q \in hit THEN [h[q] EXCEPT !.type = getType(h, q)]
                             ELSE h[q]]

\* src/core.ts:2192 getParserType (every parser of the model has a type)
getParserType(h, p) == TypeRead(h, p)

(***************************************************************************)
(* Primitive parsers                                                       *)
(***************************************************************************)
\* context.overrideType || dflt
ExpectedType(context, dflt) ==
    IF context.overrideType # <<>> THEN context.overrideType ELSE dflt

\* src/core.ts:457 string.parse
stringParse(options, input0, context) ==
    LET input1 == IF options.trim /\ input0.t = "string" THEN Str(Trim(input0.s))
                  ELSE input0
        type0 == ExpectedType(context, <<"string">>)
        expectedType == IF options.nonEmpty /\ Head(type0) # "non-empty"
                        THEN <<"non-empty">> \o type0 ELSE type0
        input2 == IF input1.t = "number" THEN Str(NumberString(input1)) ELSE input1
    IN  IF options.nonEmpty /\ input1 = Str(<<>>)
        THEN Throw(Invalid(context, expectedType, <<"got", "empty string">>), <<>>)
        ELSE IF input1.t = "NaN"
        THEN Throw(Invalid(context, expectedType, <<"got", "NaN">>), <<>>)
        ELSE IF input2.t # "string"
        THEN Throw(Invalid(context, expectedType, <<"got">> \o toType(input2)), <<>>)
        ELSE IF options.minLength # None /\ Len(input2.s) < options.minLength
        THEN Throw(Invalid(context, expectedType,
                           <<"minLength should be">> \o NumberToString(options.minLength)),
                   <<>>)
        ELSE IF options.maxLength # None /\ Len(input2.s) > options.maxLength
        THEN Throw(Invalid(context, expectedType,
                           <<"maxLength should be">> \o NumberToString(options.maxLength)),
                   <<>>)
        ELSE Return(input2, <<>>)

\* src/core.ts:735 number.parse
numberParse(options, input0, context) ==
    LET expectedType == ExpectedType(context, <<"number">>)
        type == toType(input0)
        input1 == IF input0.t = "string" THEN ToNumber(input0.s) ELSE input0
    IN  IF input0 = Str(<<>>)
        THEN Throw(Invalid(context, expectedType, <<"got">> \o type), <<>>)
        ELSE IF TypeOf(input1) # "number"
        THEN Throw(Invalid(context, expectedType, <<"got">> \o type), <<>>)
        ELSE IF input1.t = "NaN"
        THEN Throw(Invalid(context, expectedType, <<"got">> \o type), <<>>)
        ELSE IF options.min # None /\ LessThan(input1, options.min)
        THEN Throw(Invalid(context, expectedType,
                           <<"min value should be">> \o NumberToString(options.min)),
                   <<>>)
        ELSE IF options.max # None /\ GreaterThan(input1, options.max)
        THEN Throw(Invalid(context, expectedType,
                           <<"max value should be">> \o NumberToString(options.max)),
                   <<>>)
        ELSE Return(input1, <<>>)

\* +value.toFixed(digits), for digits 0 or 1 and the numbers of the model:
\* not negative, with at most two fraction digits. The digit after the
\* last one kept decides the rounding, a tie goes up.
toFixed(value, digits) ==
    LET up == IF DigitValue(value.s[digits + 1]) >= 5 THEN 1 ELSE 0
        tenths == DigitValue(value.s[1]) + up
    IN  IF Len(value.s) <= digits THEN value
        ELSE IF digits = 0 THEN Num(value.n + up)
        ELSE IF tenths = 10 THEN Num(value.n + 1)
        ELSE IF tenths = 0 THEN Num(value.n)
        ELSE Frac(value.n, <<DigitChars[tenths + 1]>>)

\* +value.toPrecision(1), for the numbers of the model: below 100, with an
\* integer part of 1 or more when there is a fraction. '4e+1' reads as 40.
toPrecision(value) ==
    IF value.n >= 10
    THEN Num(10 * ((value.n \div 10) + (IF value.n % 10 >= 5 THEN 1 ELSE 0)))
    ELSE toFixed(value, 0)

\* src/core.ts:889 float.parse
floatParse(options, input, context) ==
    LET value == numberParse(options, input,
                             [context EXCEPT !.overrideType =
                                                ExpectedType(context, <<"float">>)])
        fixed == IF options.toFixed # None THEN toFixed(value.value, options.toFixed)
                 ELSE value.value
        rounded == IF options.toPrecision # None THEN toPrecision(fixed) ELSE fixed
    IN  IF ~value.ok THEN value ELSE Return(rounded, <<>>)

\* a variant of int.parse that returns whatever number.parse returns
intParseAny(options, input, context) ==
    numberParse(options, input,
                [context EXCEPT !.overrideType = ExpectedType(context, <<"int">>)])

\* src/core.ts:919 int.parse
intParse(options, input, context) ==
    LET expectedType == ExpectedType(context, <<"int">>)
        value == numberParse(options, input,
                             [context EXCEPT !.overrideType = expectedType])
    IN  IF ~value.ok THEN value
        ELSE IF IsInteger(value.value) THEN value
        ELSE Throw(Invalid(context, expectedType, <<"got floating point number">>), <<>>)

\* src/core.ts:2002 id.parse: parseInt is int({ min: 1 }).parse
idParse(input, context) ==
    intParse([NoOptions EXCEPT !.min = 1], input,
             [context EXCEPT !.overrideType = <<"id">>])

\* src/core.ts:1171 parseBooleanString: 'false' after trimming is false,
\* anything else is !!input
parseBooleanString(input) ==
    LET trimmed == IF input.t = "string" THEN Str(Trim(input.s)) ELSE input
    IN  CASE trimmed = Str(<<"f", "a", "l", "s", "e">>) -> Bool(FALSE)
          [] trimmed.t = "string" -> Bool(trimmed.s # <<>>)
          [] trimmed.t = "number" -> Bool(trimmed.n # 0 \/ trimmed.s # <<>>)
          [] trimmed.t = "boolean" -> trimmed
          [] trimmed.t \in {"undefined", "null", "NaN"} -> Bool(FALSE)
          [] OTHER -> Bool(TRUE)

\* src/core.ts:1142 boolean.parse
booleanParse(options, input, context) ==
    LET expectedType ==
            ExpectedType(context,
                         IF options.expectedValue = None THEN <<"boolean">>
                         ELSE <<"boolean (expect:",
                                IF options.expectedValue = 1 THEN "true)" ELSE "false)">>)
        value == parseBooleanString(input)
    IN  IF options.expectedValue # None /\ value.n # options.expectedValue
        THEN Throw(Invalid(context, expectedType, <<"got">> \o toType(input)), <<>>)
        ELSE Return(value, <<>>)

\* JSON.stringify of a primitive value
Stringify(value) ==
    CASE value.t = "string" -> Quote(value.s)
      [] value.t = "number" -> NumberString(value)
      [] value.t = "boolean" -> <<IF value.n = 1 THEN "true" ELSE "false">>
      [] value.t = "date" /\ ~IsInvalidDate(value) -> Quote(toISOString(value))
      [] OTHER -> <<"null">>

\* JSON.stringify of a list of primitive values
RECURSIVE StringifyItems(_)
StringifyItems(list) ==
    IF list = <<>> THEN <<>>
    ELSE Stringify(Head(list))
         \o (IF Tail(list) = <<>> THEN <<>> ELSE <<",">> \o StringifyItems(Tail(list)))

StringifyList(list) == <<"[">> \o StringifyItems(list) \o <<"]">>

\* src/core.ts:1839 the type of literal(value), src/core.ts:1889 the type
\* of values(list): the JSON of the values joined by ' | '
RECURSIVE ValuesType(_)
ValuesType(list) ==
    IF list = <<>> THEN <<>>
    ELSE Stringify(Head(list))
         \o (IF Tail(list) = <<>> THEN <<>> ELSE <<"|">> \o ValuesType(Tail(list)))

\* src/core.ts:1825 literal.parse
literalParse(options, input, context) ==
    LET value == options.values[1]
        expectedType == ExpectedType(context, <<"literal">> \o Stringify(value))
    IN  IF input = value THEN Return(value, <<>>)
        ELSE Throw(Invalid(context, expectedType, <<"got">> \o toType(input)), <<>>)

\* a variant of the expected type of values that leaves the name out
valuesExpectedTypeNoName(options, context) ==
    ExpectedType(context,
                 <<"enums value", ",", "expect">> \o StringifyList(options.values))

\* src/core.ts:1867 values.parse: the expected type
valuesExpectedType(options, context) ==
    ExpectedType(context,
                 (IF context.name # <<>>
                  THEN <<"enums value of">> \o Quote(context.name)
                  ELSE <<"enums value">>)
                 \o <<",", "expect">> \o StringifyList(options.values))

\* src/core.ts:1861 values.parse: the error is built without a name
valuesParse(options, input, context) ==
    IF \E i \in 1..Len(options.values) : input = options.values[i]
    THEN Return(input, <<>>)
    ELSE Throw(InvalidInputError(<<>>, context.typePrefix,
                                 valuesExpectedType(options, context),
                                 <<"got">>
                                 \o (IF input.t = "number" THEN NumberString(input)
                                     ELSE IF input.t = "NaN" THEN <<"NaN">>
                                     ELSE IF input.t = "string" /\ input.s # <<>>
                                     THEN Quote(input.s)
                                     ELSE toType(input)),
                                 context.reasonSuffix, <<>>),
               <<>>)

\* a variant of the url pattern without the two slashes: /^(.+?):(.+?)(\/|$)/
urlRegexNoSlashes(url) ==
    LET starts == {i \in 2..Len(url) - 1 : url[i] = ":"}
    IN  IF starts = {} THEN [ok |-> FALSE, protocol |-> <<>>, domain |-> <<>>]
        ELSE LET i == CHOOSE i \in starts : \A k \in starts : i <= k
                 rest == SubSeq(url, i + 1, Len(url))
                 ends == {j \in 1..Len(rest) : j = Len(rest) \/ rest[j + 1] = "/"}
                 j == CHOOSE j \in ends : \A k \in ends : j <= k
             IN  [ok |-> TRUE, protocol |-> SubSeq(url, 1, i - 1),
                  domain |-> SubSeq(rest, 1, j)]

\* src/core.ts:546 url.match(urlRegex) for /^(.+?):\/\/(.+?)(\/|$)/ : the
\* protocol is the text before the first '://' that has a text after it
\* (at least one character each), the domain the shortest non-empty text
\* after it that a '/' or the end follows
urlRegex(url) ==
    LET starts == {i \in 2..Len(url) - 3 :
                      url[i] = ":" /\ url[i + 1] = "/" /\ url[i + 2] = "/"}
    IN  IF starts = {} THEN [ok |-> FALSE, protocol |-> <<>>, domain |-> <<>>]
        ELSE LET i == CHOOSE i \in starts : \A k \in starts : i <= k
                 rest == SubSeq(url, i + 3, Len(url))
                 ends == {j \in 1..Len(rest) : j = Len(rest) \/ rest[j + 1] = "/"}
                 j == CHOOSE j \in ends : \A k \in ends : j <= k
             IN  [ok |-> TRUE, protocol |-> SubSeq(url, 1, i - 1),
                  domain |-> SubSeq(rest, 1, j)]

\* src/core.ts:554 url.parse; its string parser is string(options)
urlParse(options, input, context) ==
    LET expectedType == ExpectedType(context, <<"url">>)
        url == stringParse(options, input,
                           [context EXCEPT !.overrideType = expectedType])
        match == urlRegex(url.value.s)
    IN  IF ~options.nonEmpty /\ input = Str(<<>>) THEN Return(Str(<<>>), <<>>)
        ELSE IF ~url.ok THEN url
        ELSE IF ~match.ok
        THEN Throw(Invalid(context, expectedType,
                           <<"should contains protocol and domain/host">>), <<>>)
        ELSE IF options.protocols # Undefined
                /\ \A k \in 1..Len(options.protocols.xs) :
                      options.protocols.xs[k] # Str(match.protocol)
        THEN Throw(Invalid(context, expectedType,
                           <<"protocol should be any of">>
                           \o StringifyList(options.protocols.xs)), <<>>)
        ELSE IF options.protocol # Undefined /\ Str(match.protocol) # options.protocol
        THEN Throw(Invalid(context, expectedType,
                           <<"protocol should be">> \o Stringify(options.protocol)),
                   <<>>)
        ELSE IF options.domain # Undefined /\ Str(match.domain) # options.domain
        THEN Throw(Invalid(context, expectedType,
                           <<"domain should be">> \o Stringify(options.domain)), <<>>)
        ELSE url

\* 'got ' + toType(input) + ` (${JSON.stringify(input)})`
GotJson(input) == <<"got">> \o toType(input) \o <<"(">> \o Stringify(input) \o <<")">>

\* typePrefix ? 'non-empty ' + typePrefix : 'non-empty'
NonEmptyContext(context) ==
    [context EXCEPT !.typePrefix = IF context.typePrefix # <<>>
                                   THEN <<"non-empty">> \o context.typePrefix
                                   ELSE <<"non-empty">>]

\* src/core.ts:1309 parseDateInString
parseDateInString(input, context, expectedType) ==
    LET Checked(string, date) ==
            LET plain == /\ \A i \in 1..Len(string) : string[i] \notin {"T", " "}
                         /\ ~(StartsWithDate(string) /\ Len(string) = 10)
            IN  IF plain \/ IsInvalidDate(date)
                THEN Throw(Invalid(context, expectedType, GotJson(Str(string))), <<>>)
                ELSE Return(date, <<>>)
    IN  Checked(Trim(input), NewDate(Trim(input)))

\* src/core.ts:1233 date.parse up to checkDate: the Date the input denotes
toDate(input, context, expectedType) ==
    CASE input.t = "date" -> Return(input, <<>>)
      [] input.t = "number" -> Return(DateOf(input.n), <<>>)
      [] input.t = "NaN" -> Return(InvalidDate, <<>>)
      [] input.t = "string" -> parseDateInString(Trim(input.s), context, expectedType)
      [] OTHER -> Throw(Invalid(context, expectedType, <<"got">> \o toType(input)), <<>>)

\* src/core.ts:1308 parseDate = date().parse: date.parse without bounds
parseDate(input, context) ==
    LET expectedType == ExpectedType(context, <<"date">>)
        Checked(date) ==
            IF date.ok /\ IsInvalidDate(date.value)
            THEN Throw(Invalid(context, expectedType, GotJson(input)), <<>>)
            ELSE date
    IN  Checked(toDate(input, context, expectedType))

\* src/core.ts:1225 the bounds of date(options), as time values
DateBound(bound, name) == parseDate(bound, Ctx(name, <<>>, <<>>, <<>>))

\* src/core.ts:1233 date.parse
dateParse(options, input, context) ==
    LET expectedType == ExpectedType(context, <<"date">>)
        Checked(date, min, max) ==
            IF ~date.ok THEN date
            ELSE IF options.dateMin # Undefined /\ date.value.n < min
            THEN Throw(Invalid(context, expectedType,
                               <<"min value should be">> \o Stringify(options.dateMin)),
                       <<>>)
            ELSE IF options.dateMax # Undefined /\ date.value.n > max
            THEN Throw(Invalid(context, expectedType,
                               <<"max value should be">> \o Stringify(options.dateMax)),
                       <<>>)
            ELSE date
    IN  Checked(parseDate(input, context),
                DateBound(options.dateMin, <<"options.min of date">>).value.n,
                DateBound(options.dateMax, <<"options.max of date">>).value.n)

\* src/core.ts:1440 parseDateString, on the strings of the model, whose
\* months and days have two digits
parseDateString(input0, context, expectedType) ==
    LET Checked(input) ==
            IF input = Str(<<>>)
            THEN Throw(Invalid(NonEmptyContext(context), expectedType,
                               <<"got">> \o toType(input)), <<>>)
            ELSE IF /\ StartsWithDate(input.s)
                    /\ TwoDigits(input.s, 6) \in 1..12
                    /\ TwoDigits(input.s, 9) \in 1..31
            THEN Return(Str(SubSeq(input.s, 1, 10)), <<>>)
            ELSE Throw(Invalid(context, expectedType, GotJson(input)), <<>>)
    IN  Checked(IF input0.t = "number" THEN Str(toDateString(DateOf(input0.n)))
                ELSE IF input0.t = "date" /\ ~IsInvalidDate(input0)
                THEN Str(toDateString(input0))
                ELSE IF input0.t = "date" THEN Str(<<"NaN-NaN-NaN">>)
                ELSE input0)

\* src/core.ts:1374, 1540, 1724 `if (!options.nonEmpty && input == '') return ''`
dateStringEmpty(options, input) == ~options.nonEmpty /\ LooselyEmpty(input)

\* src/core.ts:1376 the rejection of a blank string under nonEmpty
BlankRejected(options, input) ==
    options.nonEmpty /\ input.t = "string" /\ Trim(input.s) = <<>>

\* src/core.ts:1373 dateString.parse
dateStringParse(options, input, context) ==
    LET expectedType == ExpectedType(context, <<"dateString">>)
        Checked(date, dateString, min, max) ==
            IF dateStringEmpty(options, input) THEN Return(Str(<<>>), <<>>)
            ELSE IF BlankRejected(options, input)
            THEN Throw(Invalid(NonEmptyContext(context), expectedType,
                               <<"got", "empty string">>), <<>>)
            ELSE IF ~date.ok THEN date
            ELSE IF options.dateMin # Undefined /\ StringLess(dateString, min)
            THEN Throw(Invalid(context, expectedType,
                               <<"min value should be">> \o Stringify(options.dateMin)),
                       <<>>)
            ELSE IF options.dateMax # Undefined /\ StringLess(max, dateString)
            THEN Throw(Invalid(context, expectedType,
                               <<"max value should be">> \o Stringify(options.dateMax)),
                       <<>>)
            ELSE Return(Str(dateString), <<>>)
        Dated(date) ==
            Checked(date, toDateString(date.value),
                    parseDateString(options.dateMin,
                                    Ctx(<<"options.min of dateString">>, <<>>, <<>>, <<>>),
                                    <<"dateString">>).value.s,
                    parseDateString(options.dateMax,
                                    Ctx(<<"options.max of dateString">>, <<>>, <<>>, <<>>),
                                    <<"dateString">>).value.s)
    IN  Dated(parseDate(input, [context EXCEPT !.overrideType = expectedType]))

\* s[i], or '' past the end of s
CharAt(s, i) == IF i \in 1..Len(s) THEN s[i] ELSE ""

\* the match of the time pattern of the precision at s[i]:
\* (\d{1,2}):(\d{2}) for 'minute', with :(\d{2}) for 'second', with
\* \.(\d{1,3}) for 'millisecond'; the hour takes two digits when it can
TimeMatchAt(s, i, precision) ==
    LET Rest(j) ==
            /\ CharAt(s, j) = ":"
            /\ TwoDigits(s, j + 1) >= 0
            /\ precision # "minute" => CharAt(s, j + 3) = ":" /\ TwoDigits(s, j + 4) >= 0
            /\ precision = "millisecond" =>
                   CharAt(s, j + 6) = "." /\ UpToThreeDigits(s, j + 7) >= 0
        Fields(h, j) ==
            [ok |-> TRUE, h |-> h, m |-> TwoDigits(s, j + 1),
             s |-> IF precision # "minute" THEN TwoDigits(s, j + 4) ELSE 0,
             ms |-> IF precision = "millisecond" THEN UpToThreeDigits(s, j + 7) ELSE 0]
    IN  IF TwoDigits(s, i) >= 0 /\ Rest(i + 2) THEN Fields(TwoDigits(s, i), i + 2)
        ELSE IF IsDigit(CharAt(s, i)) /\ Rest(i + 1) THEN Fields(DigitValue(s[i]), i + 1)
        ELSE [ok |-> FALSE, h |-> 0, m |-> 0, s |-> 0, ms |-> 0]

\* input.match(pattern): the leftmost match
TimeMatch(s, precision) ==
    LET hits == {i \in 1..Len(s) : TimeMatchAt(s, i, precision).ok}
    IN  IF hits = {} THEN TimeMatchAt(s, Len(s) + 1, precision)
        ELSE TimeMatchAt(s, CHOOSE i \in hits : \A j \in hits : i <= j, precision)

\* ms.toString().padEnd(3, '0')
PadEnd3(digits) ==
    IF Len(digits) = 1 THEN digits \o <<"0", "0">>
    ELSE IF Len(digits) = 2 THEN digits \o <<"0">>
    ELSE digits

\* src/core.ts:1620 the string parseTimeString reads the time from when the
\* input is a number or a Date
TimeOfDate(date) == toTimeString(date)

\* src/core.ts:1601 parseTimeString
parseTimeString(input0, context, expectedType, options) ==
    LET precision == IF options.precision = "" THEN "minute" ELSE options.precision
        Checked(input, match) ==
            LET inRange == /\ match.h \in 0..23
                           /\ match.m \in 0..59
                           /\ match.s \in 0..59
            IN  IF input.t # "string"
                THEN Throw(Invalid(context, expectedType, GotJson(input)), <<>>)
                ELSE IF input = Str(<<>>)
                THEN Throw(Invalid(NonEmptyContext(context), expectedType,
                                   <<"got">> \o toType(input)), <<>>)
                ELSE IF ~match.ok \/ ~inRange
                THEN Throw(Invalid(context, expectedType, GotJson(input)), <<>>)
                ELSE Return(Str(d2(match.h) \o <<":">> \o d2(match.m)
                                \o (IF precision # "minute"
                                    THEN <<":">> \o d2(match.s) ELSE <<>>)
                                \o (IF precision = "millisecond"
                                    THEN <<".">> \o PadEnd3(NatToString(match.ms))
                                    ELSE <<>>)),
                            <<>>)
        Matched(input) == Checked(input, TimeMatch(input.s, precision))
    IN  Matched(IF input0.t = "number" THEN Str(TimeOfDate(DateOf(input0.n)))
                ELSE IF input0.t = "NaN" THEN Str(<<"NaN:NaN">>)
                ELSE IF input0.t = "date" /\ ~IsInvalidDate(input0)
                THEN Str(TimeOfDate(input0))
                ELSE IF input0.t = "date" THEN Str(<<"NaN:NaN">>)
                ELSE input0)

\* src/core.ts:1539 timeString.parse
timeStringParse(options, input, context) ==
    LET expectedType == ExpectedType(context, <<"timeString">>)
        Checked(timeString, min, max) ==
            IF dateStringEmpty(options, input) THEN Return(Str(<<>>), <<>>)
            ELSE IF BlankRejected(options, input)
            THEN Throw(Invalid(NonEmptyContext(context), expectedType,
                               <<"got", "empty string">>), <<>>)
            ELSE IF ~timeString.ok THEN timeString
            ELSE IF options.dateMin # Undefined /\ StringLess(timeString.value.s, min)
            THEN Throw(Invalid(context, expectedType,
                               <<"min value should be">> \o Stringify(options.dateMin)),
                       <<>>)
            ELSE IF options.dateMax # Undefined /\ StringLess(max, timeString.value.s)
            THEN Throw(Invalid(context, expectedType,
                               <<"max value should be">> \o Stringify(options.dateMax)),
                       <<>>)
            ELSE timeString
    IN  Checked(parseTimeString(input, context, expectedType, options),
                parseTimeString(options.dateMin,
                                Ctx(<<"options.min of timeString">>, <<>>, <<>>, <<>>),
                                <<"timeString">>, options).value.s,
                parseTimeString(options.dateMax,
                                Ctx(<<"options.max of timeString">>, <<>>, <<>>, <<>>),
                                <<"timeString">>, options).value.s)

\* src/core.ts:1797 toTimestampString
toTimestampString(date, options) ==
    LET precision == IF options.precision = "" THEN "second" ELSE options.precision
    IN  toDateString(date) \o <<" ">> \o toTimeString(date)
        \o (IF precision # "minute" THEN <<":">> \o d2(getSeconds(date)) ELSE <<>>)
        \o (IF precision = "millisecond" THEN <<".">> \o d3(getMilliseconds(date))
            ELSE <<>>)

\* src/core.ts:1723 timestamp.parse without the bounds of the timestamp
\* parser; dateParser is date({min, max})
timestampString(options, input, context) ==
    LET expectedType == ExpectedType(context, <<"timestamp">>)
        Checked(date) ==
            IF dateStringEmpty(options, input) THEN Return(Str(<<>>), <<>>)
            ELSE IF BlankRejected(options, input)
            THEN Throw(Invalid(NonEmptyContext(context), expectedType,
                               <<"got", "empty string">>), <<>>)
            ELSE IF ~date.ok THEN date
            ELSE Return(Str(toTimestampString(date.value, options)), <<>>)
    IN  Checked(dateParse(options, input,
                          [context EXCEPT !.overrideType = expectedType]))

\* src/core.ts:1796 parseTimestamp = timestamp().parse, src/core.ts:1714 the
\* bounds of timestamp(options): rendered by a timestamp parser of its own,
\* without options
TimestampBound(bound, name, options) ==
    timestampString(NoOptions, bound, Ctx(name, <<>>, <<>>, <<>>))

\* src/core.ts:1723 timestamp.parse
timestampParse(options, input, context) ==
    LET expectedType == ExpectedType(context, <<"timestamp">>)
        Checked(timestamp, min, max) ==
            IF dateStringEmpty(options, input) \/ ~timestamp.ok THEN timestamp
            ELSE IF options.dateMin # Undefined /\ StringLess(timestamp.value.s, min)
            THEN Throw(Invalid(context, expectedType,
                               <<"min value should be">> \o Stringify(options.dateMin)),
                       <<>>)
            ELSE IF options.dateMax # Undefined /\ StringLess(max, timestamp.value.s)
            THEN Throw(Invalid(context, expectedType,
                               <<"max value should be">> \o Stringify(options.dateMax)),
                       <<>>)
            ELSE timestamp
    IN  Checked(timestampString(options, input, context),
                TimestampBound(options.dateMin, <<"options.min of timestamp">>,
                               options).value.s,
                TimestampBound(options.dateMax, <<"options.max of timestamp">>,
                               options).value.s)

\* src/core.ts:1184 checkbox.parse
checkboxParse(input, context) ==
    LET expectedType == ExpectedType(context, <<"checkbox">>)
    IN  IF input = Str(<<"o", "n">>) THEN Return(Bool(TRUE), <<>>)
        ELSE IF input = Undefined \/ input = Str(<<>>) THEN Return(Bool(FALSE), <<>>)
        ELSE Throw(Invalid(context, expectedType, <<"got">> \o toType(input)), <<>>)

(***************************************************************************)
(* Combinators. Parse(h, p, input, context) is heap[p].parse(input,        *)
(* context) on the heap h.                                                 *)
(***************************************************************************)
RECURSIVE Parse(_, _, _, _)
RECURSIVE objectFields(_, _, _, _, _, _, _, _)
RECURSIVE arrayElements(_, _, _, _, _, _, _)
RECURSIVE orCandidates(_, _, _, _, _, _, _)
RECURSIVE dictEntries(_, _, _, _, _, _, _, _)

\* a variant of the field context that drops the name of the parent
FieldContextKeyOnly(name, key) == Ctx(key, <<>>, <<>>, <<>>)

\* src/core.ts:1003 the context object.parse hands to a field parser
FieldContext(name, key) ==
    Ctx(IF name # <<>> THEN name \o <<".">> \o key ELSE key, <<>>, <<>>, <<>>)

\* src/core.ts:985 object.parse: the loop over the declared fields, from the
\* i-th on, with the output built so far (ks, xs) and the calls made so far
objectFields(h, p, input, context, i, ks, xs, calls) ==
    IF i > Len(h[p].keys) THEN Return(Obj(ks, xs), calls)
    ELSE
    LET key == h[p].keys[i]
        valueParser == h[p].ids[i]
        valueInput == GetKey(input, key)
        fieldContext == FieldContext(context.name, key)
        r == Parse(h, valueParser, valueInput, fieldContext)
        made == calls \o <<Call(valueParser, valueInput, fieldContext)>> \o r.calls
    IN  IF ~HasKey(input, key)
        THEN IF isOptional(h[valueParser])
             THEN objectFields(h, p, input, context, i + 1, ks, xs, calls)
             ELSE IF isCheckbox(h[valueParser])
             THEN objectFields(h, p, input, context, i + 1,
                               Append(ks, key), Append(xs, Bool(FALSE)), calls)
             ELSE Throw(Invalid(context, ExpectedType(context, <<"object">>),
                                <<"missing">> \o Quote(key)), calls)
        ELSE IF valueInput.t \in {"null", "undefined"} /\ isOptional(h[valueParser])
        THEN objectFields(h, p, input, context, i + 1, ks, xs, calls)
        ELSE IF r.ok
        THEN objectFields(h, p, input, context, i + 1,
                          Append(ks, key), Append(xs, r.value), made)
        ELSE Throw(r.err, made)

\* a variant of object.parse that rejects an input with an undeclared key
objectParseStrict(h, p, input, context) ==
    LET expectedType == ExpectedType(context, <<"object">>)
        unknown == {i \in 1..Len(input.ks) :
                       \A j \in 1..Len(h[p].keys) : h[p].keys[j] # input.ks[i]}
    IN  IF input.t = "null"
        THEN Throw(Invalid(context, expectedType, <<"got", "null">>), <<>>)
        ELSE IF TypeOf(input) # "object"
        THEN Throw(Invalid(context, expectedType, <<"got">> \o toType(input)), <<>>)
        ELSE IF unknown # {}
        THEN Throw(Invalid(context, expectedType, <<"unknown key">>), <<>>)
        ELSE objectFields(h, p, input, context, 1, <<>>, <<>>, <<>>)

\* src/core.ts:960 object.parse
objectParse(h, p, input, context) ==
    LET expectedType == ExpectedType(context, <<"object">>)
    IN  IF input.t = "null"
        THEN Throw(Invalid(context, expectedType, <<"got", "null">>), <<>>)
        ELSE IF TypeOf(input) # "object"
        THEN Throw(Invalid(context, expectedType, <<"got">> \o toType(input)), <<>>)
        ELSE objectFields(h, p, input, context, 1, <<>>, <<>>, <<>>)

\* a variant of the element context that leaves the reason suffix as it was
ElementContextNoSuffix(context) ==
    [context EXCEPT !.typePrefix = concat(<<"array of">>, context.typePrefix)]

\* src/core.ts:1953 the context array.parse hands to the element parser
ElementContext(context) ==
    [context EXCEPT !.typePrefix = concat(<<"array of">>, context.typePrefix),
                    !.reasonSuffix = concat(context.reasonSuffix, <<"in array">>)]

\* a variant of the loop of array.parse that parses every element and then
\* throws the error of the first one that failed
RECURSIVE arrayElementsAll(_, _, _, _, _, _, _)
arrayElementsAll(h, p, input, context, i, values, calls) ==
    IF i > Len(input.xs) THEN Return(Arr(values), calls)
    ELSE
    LET parser == h[p].ids[1]
        element == input.xs[i]
        elementContext == ElementContext(context)
        r == Parse(h, parser, element, elementContext)
        made == calls \o <<Call(parser, element, elementContext)>> \o r.calls
        rest == arrayElementsAll(h, p, input, context, i + 1, Append(values, r.value),
                                 made)
    IN  IF r.ok THEN rest ELSE Throw(r.err, rest.calls)

\* src/core.ts:1951 array.parse: the loop over the elements, from the i-th on
arrayElements(h, p, input, context, i, values, calls) ==
    IF i > Len(input.xs) THEN Return(Arr(values), calls)
    ELSE
    LET parser == h[p].ids[1]
        element == input.xs[i]
        elementContext == ElementContext(context)
        r == Parse(h, parser, element, elementContext)
        made == calls \o <<Call(parser, element, elementContext)>> \o r.calls
    IN  IF r.ok
        THEN arrayElements(h, p, input, context, i + 1, Append(values, r.value), made)
        ELSE Throw(r.err, made)

\* a variant of array.parse that parses the elements before it checks the
\* length of the list
arrayParseLate(h, p, input0, context) ==
    LET options == h[p].options
        expectedType == ExpectedType(context, <<"array">>)
        input == IF input0.t # "array" /\ options.maybeSingle THEN Arr(<<input0>>)
                 ELSE input0
        r == arrayElements(h, p, input, context, 1, <<>>, <<>>)
    IN  IF input.t # "array"
        THEN Throw(Invalid(context, expectedType, <<"got">> \o toType(input)), <<>>)
        ELSE IF ~r.ok THEN r
        ELSE IF options.minLength # None /\ Len(input.xs) < options.minLength
        THEN Throw(Invalid(context, expectedType,
                           <<"minLength should be">> \o NumberToString(options.minLength)),
                   r.calls)
        ELSE IF options.maxLength # None /\ Len(input.xs) > options.maxLength
        THEN Throw(Invalid(context, expectedType,
                           <<"maxLength should be">> \o NumberToString(options.maxLength)),
                   r.calls)
        ELSE r

\* src/core.ts:1912 array.parse
arrayParse(h, p, input0, context) ==
    LET options == h[p].options
        expectedType == ExpectedType(context, <<"array">>)
        input == IF input0.t # "array" /\ options.maybeSingle THEN Arr(<<input0>>)
                 ELSE input0
    IN  IF input.t # "array"
        THEN Throw(Invalid(context, expectedType, <<"got">> \o toType(input)), <<>>)
        ELSE IF options.minLength # None /\ Len(input.xs) < options.minLength
        THEN Throw(Invalid(context, expectedType,
                           <<"minLength should be">> \o NumberToString(options.minLength)),
                   <<>>)
        ELSE IF options.maxLength # None /\ Len(input.xs) > options.maxLength
        THEN Throw(Invalid(context, expectedType,
                           <<"maxLength should be">> \o NumberToString(options.maxLength)),
                   <<>>)
        ELSE arrayElements(h, p, input, context, 1, <<>>, <<>>)

\* a variant of the nullable context that puts 'nullable' after the prefix
\* of the context
NullableContextAfter(context) ==
    [context EXCEPT !.typePrefix = context.typePrefix \o <<"nullable">>]

\* src/core.ts:1112 the context nullable.parse hands to the wrapped parser
NullableContext(context) ==
    [context EXCEPT !.typePrefix = IF context.typePrefix # <<>>
                                   THEN <<"nullable">> \o context.typePrefix
                                   ELSE <<"nullable">>]

\* src/core.ts:1109 nullable.parse
nullableParse(h, p, input, context) ==
    LET parser == h[p].ids[1]
        inner == NullableContext(context)
        r == Parse(h, parser, input, inner)
        made == <<Call(parser, input, inner)>> \o r.calls
    IN  IF input.t = "null" THEN Return(Null, <<>>)
        ELSE IF r.ok THEN Return(r.value, made) ELSE Throw(r.err, made)

\* reason.match(/got (.*)$/)?.[1] on a message: the text after the leftmost
\* 'got' that has no line break behind it (empty when there is no match)
GotFragment(message) ==
    LET hits == {i \in 1..Len(message) :
                    /\ message[i] = "got"
                    /\ \A j \in (i + 1)..Len(message) : message[j] # "\n"}
    IN  IF hits = {} THEN <<>>
        ELSE LET first == CHOOSE i \in hits : \A j \in hits : i <= j
             IN  SubSeq(message, first + 1, Len(message))

\* Set.add over a Set kept in insertion order
SetAdd(set, x) == IF \E i \in 1..Len(set) : set[i] = x THEN set ELSE Append(set, x)

\* src/core.ts:2044 the `types` Set after the loop over the first n errors
RECURSIVE unionTypes(_, _)
unionTypes(errors, n) ==
    IF n = 0 THEN <<>>
    ELSE LET type == GotFragment(errors[n].message)
         IN  IF type # <<>> THEN SetAdd(unionTypes(errors, n - 1), type)
             ELSE unionTypes(errors, n - 1)

\* a variant of `reasons` that lists a message as often as it occurs
RECURSIVE unionReasonsAll(_, _)
unionReasonsAll(errors, n) ==
    IF n = 0 THEN <<>>
    ELSE LET type == GotFragment(errors[n].message)
         IN  IF type # <<>> THEN unionReasonsAll(errors, n - 1)
             ELSE Append(unionReasonsAll(errors, n - 1), errors[n].message)

\* src/core.ts:2045 the `reasons` Set after the loop over the first n errors
RECURSIVE unionReasons(_, _)
unionReasons(errors, n) ==
    IF n = 0 THEN <<>>
    ELSE LET type == GotFragment(errors[n].message)
         IN  IF type # <<>> THEN unionReasons(errors, n - 1)
             ELSE SetAdd(unionReasons(errors, n - 1), errors[n].message)

\* Array.from(set, x => `(${x})`).join(' and ')
RECURSIVE JoinAnd(_)
JoinAnd(set) ==
    IF set = <<>> THEN <<>>
    ELSE <<"(">> \o Head(set) \o <<")">>
         \o (IF Tail(set) = <<>> THEN <<>> ELSE <<"and">> \o JoinAnd(Tail(set)))

\* src/core.ts:2055 unionReason
unionReason(errors) ==
    LET types == unionTypes(errors, Len(errors))
        reasons == JoinAnd(unionReasons(errors, Len(errors)))
    IN  IF types = <<>> THEN reasons
        ELSE (IF reasons # <<>> THEN reasons \o <<",">> ELSE <<>>)
             \o <<"got">>
             \o (IF Len(types) = 1 THEN types[1] ELSE JoinAnd(types))

\* a variant of the loop of or.parse that tries the candidates from the last
\* to the first
RECURSIVE orCandidatesReversed(_, _, _, _, _, _, _)
orCandidatesReversed(h, p, input, context, i, errors, calls) ==
    IF i > Len(h[p].ids)
    THEN Throw(InvalidInputError(context.name, context.typePrefix,
                                 ExpectedType(context, <<"union type of">> \o h[p].type),
                                 unionReason(errors), context.reasonSuffix, errors),
               calls)
    ELSE
    LET parser == h[p].ids[Len(h[p].ids) + 1 - i]
        r == Parse(h, parser, input, context)
        made == calls \o <<Call(parser, input, context)>> \o r.calls
    IN  IF r.ok THEN Return(r.value, made)
        ELSE orCandidatesReversed(h, p, input, context, i + 1, Append(errors, r.err),
                                  made)

\* src/core.ts:2031 or.parse: the loop over the candidates, from the i-th on
orCandidates(h, p, input, context, i, errors, calls) ==
    IF i > Len(h[p].ids)
    THEN Throw(InvalidInputError(context.name, context.typePrefix,
                                 ExpectedType(context, <<"union type of">> \o h[p].type),
                                 unionReason(errors), context.reasonSuffix, errors),
               calls)
    ELSE
    LET parser == h[p].ids[i]
        r == Parse(h, parser, input, context)
        made == calls \o <<Call(parser, input, context)>> \o r.calls
    IN  IF r.ok THEN Return(r.value, made)
        ELSE orCandidates(h, p, input, context, i + 1, Append(errors, r.err), made)

\* src/core.ts:2028 or.parse
orParse(h, p, input, context) == orCandidates(h, p, input, context, 1, <<>>, <<>>)

\* src/core.ts:1981 the parser singletonArray builds for itself:
\* array(valueParser, {minLength: 1, maxLength: 1})
SingletonArrayParser(h, p) ==
    ParserObject("array", <<>>, h[p].ids, ArrayOptions(1, 1, FALSE),
                 <<"Array<">> \o h[h[p].ids[1]].type \o <<">">>)

\* a variant of singletonArray.parse that returns the list
singletonArrayParseList(h, p, input, context) ==
    arrayParse(Append(h, SingletonArrayParser(h, p)), Len(h) + 1, input,
               [context EXCEPT !.overrideType =
                                  ExpectedType(context, <<"singletonArray">>)])

\* src/core.ts:1982 singletonArray.parse
singletonArrayParse(h, p, input, context) ==
    LET array == arrayParse(Append(h, SingletonArrayParser(h, p)), Len(h) + 1, input,
                            [context EXCEPT !.overrideType =
                                ExpectedType(context, <<"singletonArray">>)])
    IN  IF array.ok THEN Return(array.value.xs[1], array.calls) ELSE array

\* the own enumerable keys of an input, as for..in visits them: the keys of
\* an object, the indices of an array
OwnKeys(input) ==
    IF input.t = "array" THEN [i \in 1..Len(input.xs) |-> NatToString(i - 1)]
    ELSE input.ks

\* record[key] = value, where the property name is String(key)
SetKey(record, key, value) ==
    LET name == IF key.t = "number" THEN NumberString(key) ELSE key.s
    IN  IF HasKey(record, name)
        THEN Obj(record.ks,
                 [i \in 1..Len(record.ks) |->
                     IF record.ks[i] = name THEN value ELSE record.xs[i]])
        ELSE Obj(Append(record.ks, name), Append(record.xs, value))

\* src/core.ts:2109 the type dict.parse reports its errors under
DictType(context) == ExpectedType(context, <<"dict/record">>)

\* src/core.ts:2114 the context dict.parse hands to the key parser
DictKeyContext(context) ==
    [context EXCEPT !.overrideType = DictType(context), !.reasonSuffix = <<"in key">>]

\* a variant of the value context that leaves the reason suffix as it was
DictValueContextNoSuffix(context) ==
    [context EXCEPT !.overrideType = DictType(context)]

\* src/core.ts:2120 the context dict.parse hands to the value parser
DictValueContext(context) ==
    [context EXCEPT !.overrideType = DictType(context), !.reasonSuffix = <<"in value">>]

\* src/core.ts:2112 dict.parse: the loop over the keys of the input, from
\* the i-th on, with the record built so far
dictEntries(h, p, input, context, i, record, calls, keys) ==
    IF i > Len(keys) THEN Return(record, calls)
    ELSE
    LET keyInput == Str(keys[i])
        keyContext == DictKeyContext(context)
        k == Parse(h, h[p].ids[1], keyInput, keyContext)
        afterKey == calls \o <<Call(h[p].ids[1], keyInput, keyContext)>> \o k.calls
        valueInput == input.xs[i]
        valueContext == DictValueContext(context)
        v == Parse(h, h[p].ids[2], valueInput, valueContext)
        afterValue == afterKey \o <<Call(h[p].ids[2], valueInput, valueContext)>>
                      \o v.calls
    IN  IF ~k.ok THEN Throw(k.err, afterKey)
        ELSE IF ~v.ok THEN Throw(v.err, afterValue)
        ELSE dictEntries(h, p, input, context, i + 1, SetKey(record, k.value, v.value),
                         afterValue, keys)

\* src/core.ts:2108 dict.parse; objectParser is object({}), a parser of its
\* own that no schema shares
dictParse(h, p, input, context) ==
    LET objectParser == ParserObject("object", <<>>, <<>>, NoOptions, <<>>)
        checked == objectParse(Append(h, objectParser), Len(h) + 1, input,
                               [context EXCEPT !.overrideType = DictType(context)])
    IN  IF ~checked.ok THEN Throw(checked.err, <<>>)
        ELSE dictEntries(h, p, input, context, 1, Obj(<<>>, <<>>), <<>>, OwnKeys(input))

\* a variant of parse in which a parser tagged optional accepts undefined
ParseOptionalAware(h, p, input, context) ==
    IF h[p].optional /\ input.t = "undefined" THEN Return(Undefined, <<>>)
    ELSE
    CASE h[p].kind = "string" -> stringParse(h[p].options, input, context)
      [] h[p].kind = "number" -> numberParse(h[p].options, input, context)
      [] h[p].kind = "url" -> urlParse(h[p].options, input, context)
      [] h[p].kind = "float" -> floatParse(h[p].options, input, context)
      [] h[p].kind = "int" -> intParse(h[p].options, input, context)
      [] h[p].kind = "id" -> idParse(input, context)
      [] h[p].kind = "checkbox" -> checkboxParse(input, context)
      [] h[p].kind = "date" -> dateParse(h[p].options, input, context)
      [] h[p].kind = "dateString" -> dateStringParse(h[p].options, input, context)
      [] h[p].kind = "timeString" -> timeStringParse(h[p].options, input, context)
      [] h[p].kind = "timestamp" -> timestampParse(h[p].options, input, context)
      [] h[p].kind = "boolean" -> booleanParse(h[p].options, input, context)
      [] h[p].kind = "literal" -> literalParse(h[p].options, input, context)
      [] h[p].kind = "values" -> valuesParse(h[p].options, input, context)
      [] h[p].kind = "object" -> objectParse(h, p, input, context)
      [] h[p].kind = "array" -> arrayParse(h, p, input, context)
      [] h[p].kind = "nullable" -> nullableParse(h, p, input, context)
      [] h[p].kind = "or" -> orParse(h, p, input, context)
      [] h[p].kind = "dict" -> dictParse(h, p, input, context)
      [] h[p].kind = "singletonArray" -> singletonArrayParse(h, p, input, context)

\* parser.parse(input, context) for the parser at p
Parse(h, p, input, context) ==
    CASE h[p].kind = "string" -> stringParse(h[p].options, input, context)
      [] h[p].kind = "number" -> numberParse(h[p].options, input, context)
      [] h[p].kind = "url" -> urlParse(h[p].options, input, context)
      [] h[p].kind = "float" -> floatParse(h[p].options, input, context)
      [] h[p].kind = "int" -> intParse(h[p].options, input, context)
      [] h[p].kind = "id" -> idParse(input, context)
      [] h[p].kind = "checkbox" -> checkboxParse(input, context)
      [] h[p].kind = "date" -> dateParse(h[p].options, input, context)
      [] h[p].kind = "dateString" -> dateStringParse(h[p].options, input, context)
      [] h[p].kind = "timeString" -> timeStringParse(h[p].options, input, context)
      [] h[p].kind = "timestamp" -> timestampParse(h[p].options, input, context)
      [] h[p].kind = "boolean" -> booleanParse(h[p].options, input, context)
      [] h[p].kind = "literal" -> literalParse(h[p].options, input, context)
      [] h[p].kind = "values" -> valuesParse(h[p].options, input, context)
      [] h[p].kind = "object" -> objectParse(h, p, input, context)
      [] h[p].kind = "array" -> arrayParse(h, p, input, context)
      [] h[p].kind = "nullable" -> nullableParse(h, p, input, context)
      [] h[p].kind = "or" -> orParse(h, p, input, context)
      [] h[p].kind = "dict" -> dictParse(h, p, input, context)
      [] h[p].kind = "singletonArray" -> singletonArrayParse(h, p, input, context)

(***************************************************************************)
(* Sample values and inference                                             *)
(***************************************************************************)
\* parser.sampleValue (src/core.ts:400 populateSampleProps over the default
\* of each factory). No parser of the model has an undefined sample, so
\* object.getDefaultSampleValue never falls back on randomSample.
RECURSIVE sampleValue(_, _)
sampleValue(h, p) ==
    LET custom == h[p].options.sampleValue
        kind == h[p].kind
    IN  IF custom # Undefined THEN custom
        ELSE CASE kind = "string" -> Str(<<"t", "e", "x", "t">>)
               [] kind \in {"number", "float"} -> Frac(3, <<"1", "4">>)
               [] kind = "int" -> Num(42)
               [] kind = "id" -> Num(1)
               [] kind \in {"boolean", "checkbox"} -> Bool(TRUE)
               [] kind \in {"literal", "values"} ->
                    IF h[p].options.values = <<>> THEN Undefined
                    ELSE h[p].options.values[1]
               [] kind = "object" ->
                    Obj(h[p].keys,
                        [i \in 1..Len(h[p].ids) |-> sampleValue(h, h[p].ids[i])])
               [] kind = "nullable" -> Null
               [] kind = "array" -> Arr(<<sampleValue(h, h[p].ids[1])>>)
               [] kind \in {"or", "singletonArray"} -> sampleValue(h, h[p].ids[1])
               [] kind = "dict" -> Obj(<<>>, <<>>)

\* a variant of the suffix loop that tests each suffix once, in the order
\* enum, nullable, optional
DecodeFieldOnce(field, isArray, found) ==
    LET Ends(f, suffixes) == f # <<>> /\ f[Len(f)] \in suffixes
        Cut(f) == SubSeq(f, 1, Len(f) - 1)
        enums == isArray /\ Ends(field, {"$enums", "$enum"})
        f1 == IF enums THEN Cut(field) ELSE field
        nullable == Ends(f1, {"$nullable", "$null"})
        f2 == IF nullable THEN Cut(f1) ELSE f1
        optional == Ends(f2, {"$optional", "?"})
        f3 == IF optional THEN Cut(f2) ELSE f2
    IN  [field |-> f3, enums |-> enums, nullable |-> nullable, optional |-> optional]

\* src/core.ts:2287 the suffix loop of inferFromSampleValue on one key
RECURSIVE DecodeField(_, _, _)
DecodeField(field, isArray, found) ==
    LET suffix == IF field = <<>> THEN "" ELSE field[Len(field)]
        rest == SubSeq(field, 1, Len(field) - 1)
    IN  IF isArray /\ suffix \in {"$enums", "$enum"}
        THEN DecodeField(rest, isArray, [found EXCEPT !.enums = TRUE])
        ELSE IF suffix \in {"$nullable", "$null"}
        THEN DecodeField(rest, isArray, [found EXCEPT !.nullable = TRUE])
        ELSE IF suffix \in {"$optional", "?"}
        THEN DecodeField(rest, isArray, [found EXCEPT !.optional = TRUE])
        ELSE [found EXCEPT !.field = field]

NothingFound == [field |-> <<>>, enums |-> FALSE, nullable |-> FALSE, optional |-> FALSE]

\* nullable(parser) on the heap h
WithNullable(h, parser) ==
    LET type == getParserType(h, parser)
    IN  Append(ReadTypes(h, {parser}),
               ParserObject("nullable", <<>>, <<parser>>, NoOptions,
                            IF isSimpleType(type) THEN <<"null", "|">> \o type
                            ELSE <<"null", "|", "(">> \o type \o <<")">>))

\* array(parser) on the heap h
WithArray(h, parser) ==
    Append(ReadTypes(h, {parser}),
           ParserObject("array", <<>>, <<parser>>, ArrayOptions(None, None, FALSE),
                        <<"Array<">> \o getParserType(h, parser) \o <<">">>))

\* a variant of the entries that keeps an entry for every key of the sample
SetEntryEach(keys, ids, field, parser) ==
    [keys |-> Append(keys, field), ids |-> Append(ids, parser)]

\* Object.fromEntries: a repeated name keeps its first place and takes the
\* last parser
SetEntry(keys, ids, field, parser) ==
    IF \E i \in 1..Len(keys) : keys[i] = field
    THEN [keys |-> keys,
          ids |-> [i \in 1..Len(ids) |-> IF keys[i] = field THEN parser ELSE ids[i]]]
    ELSE [keys |-> Append(keys, field), ids |-> Append(ids, parser)]

\* src/core.ts:2261 inferFromSampleValue(value) on the heap h: whether it
\* returns (ok) and the heap with the parsers it built, the inferred parser
\* last, or else the value it throws 'unsupported sample value' for
RECURSIVE inferFromSampleValue(_, _)
RECURSIVE inferFields(_, _, _, _, _)
inferFromSampleValue(h, value) ==
    CASE value.t = "string" ->
            [ok |-> TRUE,
             h |-> Append(h, ParserObject("string", <<>>, <<>>,
                                          [NoOptions EXCEPT !.sampleValue = value],
                                          <<"string">>))]
      [] value.t \in {"number", "NaN"} ->
            [ok |-> TRUE,
             h |-> Append(h, ParserObject(IF IsInteger(value) THEN "int" ELSE "float",
                                          <<>>, <<>>,
                                          [NoOptions EXCEPT !.sampleValue = value],
                                          <<"number">>))]
      [] value.t = "boolean" ->
            [ok |-> TRUE,
             h |-> Append(h, ParserObject("boolean", <<>>, <<>>, NoOptions,
                                          <<"boolean">>))]
      [] value.t = "date" ->
            [ok |-> TRUE,
             h |-> Append(h, ParserObject("date", <<>>, <<>>,
                                          [NoOptions EXCEPT !.sampleValue = value],
                                          <<"Date">>))]
      [] value.t = "array" ->
            LET element == inferFromSampleValue(h, IF value.xs = <<>> THEN Undefined
                                                   ELSE value.xs[1])
            IN  IF ~element.ok THEN element
                ELSE [ok |-> TRUE, h |-> WithArray(element.h, Len(element.h))]
      [] value.t = "object" -> inferFields(h, value, 1, <<>>, <<>>)
      [] OTHER -> [ok |-> FALSE, h |-> h, value |-> value]

\* src/core.ts:2284 the loop over the fields of an object sample
inferFields(h, value, i, keys, ids) ==
    IF i > Len(value.ks)
    THEN [ok |-> TRUE,
          h |-> Append(h, ParserObject("object", keys, ids,
                                       [NoOptions EXCEPT !.sampleValue = value], <<>>))]
    ELSE LET val == value.xs[i]
             found == DecodeField(value.ks[i], val.t = "array", NothingFound)
             inferred ==
                 IF found.enums
                 THEN [ok |-> TRUE,
                       h |-> Append(h, ParserObject("values", <<>>, <<>>,
                                                    [NoOptions EXCEPT !.values = val.xs],
                                                    ValuesType(val.xs)))]
                 ELSE inferFromSampleValue(h, val)
             wrapped == IF found.nullable THEN WithNullable(inferred.h, Len(inferred.h))
                        ELSE inferred.h
             tagged == IF found.optional
                       THEN [wrapped EXCEPT ![Len(wrapped)].optional = TRUE]
                       ELSE wrapped
             entries == SetEntry(keys, ids, found.field, Len(tagged))
         IN  IF ~inferred.ok THEN inferred
             ELSE inferFields(tagged, value, i + 1, entries.keys, entries.ids)

(***************************************************************************)
(* The values the model hands to the library                               *)
(***************************************************************************)
\* the keys a schema declares, and a key no schema declares
KeyA == <<"a">>
KeyB == <<"b">>
KeyC == <<"c">>

Scalars ==
    {Undefined, Null, Str(<<>>), Str(<<"x">>), Str(<<"4", "2">>), Str(<<"o", "n">>),
     Num(42)}

\* the object with the given values under the keys a, b, c; Absent leaves
\* the key out
Absent == Val("absent", 0, <<>>, <<>>, <<>>)

RECURSIVE Present(_, _, _)
Present(keys, vals, pick) ==
    IF keys = <<>> THEN <<>>
    ELSE (IF Head(vals) = Absent THEN <<>>
          ELSE <<IF pick = "key" THEN Head(keys) ELSE Head(vals)>>)
         \o Present(Tail(keys), Tail(vals), pick)

ObjectOf(a, b, c) ==
    Obj(Present(<<KeyA, KeyB, KeyC>>, <<a, b, c>>, "key"),
        Present(<<KeyA, KeyB, KeyC>>, <<a, b, c>>, "val"))

InnerObjects == {ObjectOf(a, Absent, Absent) : a \in {Absent, Null, Str(<<"x">>)}}

FieldValues == {Absent, Undefined, Null, Str(<<"x">>), Str(<<"o", "n">>)}

FlatObjects ==
    {ObjectOf(a, b, Absent) : a \in FieldValues, b \in {Absent, Null, Str(<<"x">>)}}
    \cup {ObjectOf(a, Absent, Num(42)) : a \in FieldValues}

NestedObjects == {ObjectOf(Absent, o, Absent) : o \in InnerObjects}

Elements == {Null, Str(<<"x">>), Num(42)}

SeqsUpTo(S, n) == UNION {[1..k -> S] : k \in 0..n}

Arrays ==
    {Arr(xs) : xs \in SeqsUpTo(Elements, MaxLen)}
    \cup {Arr(<<o>>) : o \in InnerObjects}

\* the contexts a caller passes: none, a root name, the context of a
\* wrapping parser that sets a prefix and a suffix, and the context of one
\* that overrides the type, as dict does for its values
Contexts ==
    {EmptyCtx,
     Ctx(<<"req">>, <<>>, <<>>, <<>>),
     Ctx(<<>>, <<"outer of">>, <<"in outer">>, <<>>),
     Ctx(<<>>, <<>>, <<"in value">>, <<"dict/record">>)}

(***************************************************************************)
(* The library calls                                                       *)
(***************************************************************************)
\* the record of a call: the factory or method called (op), the parser
\* passed to it (arg), the parser returned or parsed (p) and, for parse,
\* the input, the context and the outcome
NoCall ==
    [op |-> "none", arg |-> 0, p |-> 0, input |-> Undefined, context |-> EmptyCtx,
     result |-> Return(Undefined, <<>>)]

Built(op, arg, p) == [NoCall EXCEPT !.op = op, !.arg = arg, !.p = p]

Ids == 1..Len(heap)

\* the parsers a call of the model is given: the two built last, the one
\* built last among them (schemas are built bottom-up)
Operands == {i \in Ids : i + 2 > Len(heap)}

UsesLast(parsers) == \E i \in 1..Len(parsers) : parsers[i] = Len(heap)

CanBuild == Len(heap) < MaxParsers

\* the option records the calls of the model pass to array()
ArrayOptionSets ==
    {ArrayOptions(None, None, FALSE), ArrayOptions(None, None, TRUE),
     ArrayOptions(1, None, FALSE), ArrayOptions(None, 1, FALSE),
     ArrayOptions(2, 1, TRUE)}

\* the field parsers the calls of the model pass to object(): any of the
\* keys a and b, declared in this order, each with a parser built before
FieldLists ==
    {<<>>}
    \cup {<<<<k, i>>>> : k \in {KeyA, KeyB}, i \in {Len(heap)} \cap Ids}
    \cup {<<<<KeyA, ij[1]>>, <<KeyB, ij[2]>>>> :
             ij \in {ps \in Operands \X Operands : UsesLast(ps)}}

Init ==
    /\ heap = <<>>
    /\ last = NoCall
    /\ running = <<>>

\* src/core.ts:454 string()
string ==
    /\ CanBuild
    /\ heap' = Append(heap, ParserObject("string", <<>>, <<>>, NoOptions, <<"string">>))
    /\ last' = Built("string", 0, Len(heap) + 1)
    /\ UNCHANGED running

\* src/core.ts:732 number()
number ==
    /\ CanBuild
    /\ heap' = Append(heap, ParserObject("number", <<>>, <<>>, NoOptions, <<"number">>))
    /\ last' = Built("number", 0, Len(heap) + 1)
    /\ UNCHANGED running

\* the options the calls of the model pass to url(): the protocols h and f,
\* the domain d
UrlOptionSets ==
    {NoOptions,
     [NoOptions EXCEPT !.nonEmpty = TRUE],
     [NoOptions EXCEPT !.trim = FALSE],
     [NoOptions EXCEPT !.protocol = Str(<<"h">>)],
     [NoOptions EXCEPT !.protocols = Arr(<<Str(<<"h">>), Str(<<"f">>)>>)],
     [NoOptions EXCEPT !.protocols = Arr(<<Str(<<"f">>)>>), !.protocol = Str(<<"h">>)],
     [NoOptions EXCEPT !.domain = Str(<<"d">>)],
     [NoOptions EXCEPT !.nonEmpty = TRUE, !.protocol = Str(<<"h">>),
                       !.domain = Str(<<"d">>)]}

\* src/core.ts:552 url(options)
url ==
    /\ CanBuild
    /\ \E options \in UrlOptionSets :
         heap' = Append(heap, ParserObject("url", <<>>, <<>>, options, <<"string">>))
    /\ last' = Built("url", 0, Len(heap) + 1)
    /\ UNCHANGED running

\* the inputs of a url parser
Urls ==
    {Str(<<>>), Str(<<" ">>), Num(42), Null, Undefined,
     Str(<<"h", ":", "/", "/", "d">>), Str(<<" ", "h", ":", "/", "/", "d", " ">>),
     Str(<<"h", ":", "/", "/", "d", "/", "p">>), Str(<<"f", ":", "/", "/", "d">>),
     Str(<<"h", ":", "/", "/", "e">>), Str(<<"g", ":", "/", "/", "d", "/">>),
     Str(<<"h", ":", "/", "d">>), Str(<<"h", ":", "d">>), Str(<<":", "/", "/", "d">>),
     Str(<<"h", ":", "/", "/">>), Str(<<"h", ":", "/", "/", "/", "d">>),
     Str(<<"h", ":", "/", "/", "d", ":", "/", "/", "e">>), Str(<<"x">>)}

\* the options the calls of the model pass to int() and float()
NumberOptionSets ==
    {NoOptions, [NoOptions EXCEPT !.min = 1], [NoOptions EXCEPT !.max = 41],
     [NoOptions EXCEPT !.min = 1, !.max = 3]}

\* the options the calls of the model pass to float(): those of int(), and
\* toFixed, and toPrecision under a lower bound
FloatOptionSets ==
    NumberOptionSets
    \cup {[NoOptions EXCEPT !.toFixed = 1],
          [NoOptions EXCEPT !.min = 41, !.toPrecision = 1]}

\* src/core.ts:885 float(options)
float ==
    /\ CanBuild
    /\ \E options \in FloatOptionSets :
         heap' = Append(heap, ParserObject("float", <<>>, <<>>, options, <<"number">>))
    /\ last' = Built("float", 0, Len(heap) + 1)
    /\ UNCHANGED running

\* src/core.ts:917 int(options)
int ==
    /\ CanBuild
    /\ \E options \in NumberOptionSets :
         heap' = Append(heap, ParserObject("int", <<>>, <<>>, options, <<"number">>))
    /\ last' = Built("int", 0, Len(heap) + 1)
    /\ UNCHANGED running

\* src/core.ts:2000 id()
id ==
    /\ CanBuild
    /\ heap' = Append(heap, ParserObject("id", <<>>, <<>>, NoOptions, <<"number">>))
    /\ last' = Built("id", 0, Len(heap) + 1)
    /\ UNCHANGED running

\* src/core.ts:1183 checkbox()
checkbox ==
    /\ CanBuild
    /\ heap' = Append(heap, ParserObject("checkbox", <<>>, <<>>, NoOptions, <<"boolean">>))
    /\ last' = Built("checkbox", 0, Len(heap) + 1)
    /\ UNCHANGED running

\* the second day of the model's month, 10:00, 10:00:30 and 10:00:30.500 on
\* it, as strings and as time values
Day2 == YearMonth \o <<"0", "2">>
TenMinute == <<"1", "0", ":", "0", "0">>
TenSecond == TenMinute \o <<":", "3", "0">>
TenMillisecond == TenSecond \o <<".", "5", "0", "0">>
TimeOfTen == 86400000 + 10 * 3600000
TimeOfTenMillisecond == TimeOfTen + 30500

\* the options the calls of the model pass to date(), dateString(),
\* timeString() and timestamp()
DateOptionSets(kind) ==
    CASE kind = "date" ->
            {NoOptions, [NoOptions EXCEPT !.dateMin = DateOf(TimeOfTen)],
             [NoOptions EXCEPT !.dateMax = Num(TimeOfTen)]}
      [] kind = "dateString" ->
            {NoOptions, [NoOptions EXCEPT !.dateMin = Str(Day2)],
             [NoOptions EXCEPT !.dateMax = Str(Day2)]}
      [] kind = "timeString" ->
            {NoOptions, [NoOptions EXCEPT !.precision = "second"],
             [NoOptions EXCEPT !.precision = "millisecond"],
             [NoOptions EXCEPT !.dateMin = Str(TenMinute)],
             [NoOptions EXCEPT !.precision = "second", !.dateMax = Str(TenSecond)]}
      [] kind = "timestamp" ->
            {NoOptions, [NoOptions EXCEPT !.precision = "minute"],
             [NoOptions EXCEPT !.precision = "millisecond"],
             [NoOptions EXCEPT !.dateMin = Str(Day2 \o <<" ">> \o TenSecond)],
             [NoOptions EXCEPT !.precision = "minute",
                               !.dateMin = Str(Day2 \o <<" ">> \o TenMinute)],
             [NoOptions EXCEPT !.precision = "millisecond",
                               !.dateMax = Str(Day2 \o <<" ">> \o TenMillisecond)]}

\* the factory returns: it parsed the bounds it was given
BoundsParsed(kind, options) ==
    \A bound \in {options.dateMin, options.dateMax} \ {Undefined} :
        CASE kind = "date" -> DateBound(bound, <<"options of date">>).ok
          [] kind = "dateString" ->
                parseDateString(bound, EmptyCtx, <<"dateString">>).ok
          [] kind = "timeString" ->
                parseTimeString(bound, EmptyCtx, <<"timeString">>, options).ok
          [] kind = "timestamp" ->
                /\ TimestampBound(bound, <<"options of timestamp">>, options).ok
                /\ DateBound(bound, <<"options of date">>).ok

\* src/core.ts:1224 date(options)
date ==
    /\ CanBuild
    /\ \E options \in DateOptionSets("date") :
         /\ BoundsParsed("date", options)
         /\ heap' = Append(heap, ParserObject("date", <<>>, <<>>, options, <<"Date">>))
    /\ last' = Built("date", 0, Len(heap) + 1)
    /\ UNCHANGED running

\* src/core.ts:1353 dateString(options)
dateString ==
    /\ CanBuild
    /\ \E options \in DateOptionSets("dateString") :
         /\ BoundsParsed("dateString", options)
         /\ heap' = Append(heap,
                           ParserObject("dateString", <<>>, <<>>, options, <<"string">>))
    /\ last' = Built("dateString", 0, Len(heap) + 1)
    /\ UNCHANGED running

\* src/core.ts:1518 timeString(options)
timeString ==
    /\ CanBuild
    /\ \E options \in DateOptionSets("timeString") :
         /\ BoundsParsed("timeString", options)
         /\ heap' = Append(heap,
                           ParserObject("timeString", <<>>, <<>>, options, <<"string">>))
    /\ last' = Built("timeString", 0, Len(heap) + 1)
    /\ UNCHANGED running

\* src/core.ts:1710 timestamp(options)
timestamp ==
    /\ CanBuild
    /\ \E options \in DateOptionSets("timestamp") :
         /\ BoundsParsed("timestamp", options)
         /\ heap' = Append(heap,
                           ParserObject("timestamp", <<>>, <<>>, options, <<"string">>))
    /\ last' = Built("timestamp", 0, Len(heap) + 1)
    /\ UNCHANGED running

\* the inputs of the date and time parsers
DateInputs ==
    {Str(<<>>), Str(<<" ">>), Num(0), Num(TimeOfTen), Num(TimeOfTenMillisecond), NaN,
     Bool(FALSE), DateOf(0), DateOf(TimeOfTen), DateOf(TimeOfTenMillisecond),
     InvalidDate, Str(Day2), Str(Day2 \o <<" ">> \o TenMinute),
     Str(Day2 \o <<" ">> \o TenSecond), Str(Day2 \o <<" ">> \o TenMillisecond),
     Str(Day2 \o <<"T">> \o TenMinute), Str(TenMinute), Str(TenSecond),
     Str(TenMillisecond), Str(<<"2", "5", ":", "0", "0">>)}

\* src/core.ts:1138 boolean(expectedValue)
boolean ==
    /\ CanBuild
    /\ \E expectedValue \in {None, 0, 1} :
         heap' = Append(heap,
                        ParserObject("boolean", <<>>, <<>>,
                                     [NoOptions EXCEPT !.expectedValue = expectedValue],
                                     <<"boolean">>))
    /\ last' = Built("boolean", 0, Len(heap) + 1)
    /\ UNCHANGED running

\* the lists the calls of the model pass to values()
ValueLists ==
    {<<Str(<<"x">>)>>, <<Str(<<"x">>), Str(<<"o", "n">>)>>, <<Num(42), Null>>}

\* src/core.ts:1824 literal(value)
literal ==
    /\ CanBuild
    /\ \E value \in {Str(<<"x">>), Num(42), Null} :
         heap' = Append(heap,
                        ParserObject("literal", <<>>, <<>>,
                                     [NoOptions EXCEPT !.values = <<value>>],
                                     Stringify(value)))
    /\ last' = Built("literal", 0, Len(heap) + 1)
    /\ UNCHANGED running

\* src/core.ts:1857 values(list)
values ==
    /\ CanBuild
    /\ \E list \in ValueLists :
         heap' = Append(heap,
                        ParserObject("values", <<>>, <<>>,
                                     [NoOptions EXCEPT !.values = list],
                                     ValuesType(list)))
    /\ last' = Built("values", 0, Len(heap) + 1)
    /\ UNCHANGED running

\* src/core.ts:956 object(fieldParsers): the signature is not computed yet
object ==
    /\ CanBuild
    /\ \E fields \in FieldLists :
         heap' = Append(heap, ParserObject("object",
                                           [i \in 1..Len(fields) |-> fields[i][1]],
                                           [i \in 1..Len(fields) |-> fields[i][2]],
                                           NoOptions, <<>>))
    /\ last' = Built("object", 0, Len(heap) + 1)
    /\ UNCHANGED running

\* src/core.ts:1097 optional(parser): Object.assign tags the parser it is
\* given and returns that same parser
optional ==
    \E parser \in Operands :
        /\ heap' = [heap EXCEPT ![parser].optional = TRUE]
        /\ last' = Built("optional", parser, parser)
        /\ UNCHANGED running

\* src/core.ts:1105 nullable(parser): reads parser.type
nullable ==
    /\ CanBuild
    /\ \E parser \in {Len(heap)} \cap Ids :
         LET type == getParserType(heap, parser)
         IN  /\ heap' = Append(ReadTypes(heap, {parser}),
                               ParserObject("nullable", <<>>, <<parser>>, NoOptions,
                                            IF isSimpleType(type)
                                            THEN <<"null", "|">> \o type
                                            ELSE <<"null", "|", "(">> \o type \o <<")">>))
             /\ last' = Built("nullable", parser, Len(heap) + 1)
    /\ UNCHANGED running

\* src/core.ts:1908 array(parser, options): reads parser.type
array ==
    /\ CanBuild
    /\ \E parser \in {Len(heap)} \cap Ids, options \in ArrayOptionSets :
         /\ heap' = Append(ReadTypes(heap, {parser}),
                           ParserObject("array", <<>>, <<parser>>, options,
                                        <<"Array<">> \o getParserType(heap, parser)
                                        \o <<">">>))
         /\ last' = Built("array", parser, Len(heap) + 1)
    /\ UNCHANGED running

\* parsers.map(getParserType).join(' | ')
RECURSIVE JoinTypes(_, _)
JoinTypes(h, parsers) ==
    IF parsers = <<>> THEN <<>>
    ELSE getParserType(h, Head(parsers))
         \o (IF Tail(parsers) = <<>> THEN <<>> ELSE <<"|">> \o JoinTypes(h, Tail(parsers)))

\* src/core.ts:2020 or(parsers): reads the type of every candidate
or ==
    /\ CanBuild
    /\ \E parsers \in {ps \in UNION {[1..k -> Operands] : k \in 1..2} : UsesLast(ps)} :
         /\ heap' = Append(ReadTypes(heap, {parsers[i] : i \in 1..Len(parsers)}),
                           ParserObject("or", <<>>, parsers, NoOptions,
                                        <<"(">> \o JoinTypes(heap, parsers) \o <<")">>))
         /\ last' = Built("or", 0, Len(heap) + 1)
    /\ UNCHANGED running

\* src/core.ts:2095 dict({key, value}): reads the types of both parsers;
\* without a key parser it builds string({nonEmpty: false}) for the keys
dict ==
    \/ /\ CanBuild
       /\ \E kv \in {ps \in Operands \X Operands : UsesLast(ps)} :
            /\ heap' = Append(ReadTypes(heap, {kv[1], kv[2]}),
                              ParserObject("dict", <<>>, kv, NoOptions,
                                           <<"Record<">> \o getParserType(heap, kv[1])
                                           \o <<",">> \o getParserType(heap, kv[2])
                                           \o <<">">>))
            /\ last' = Built("dict", 0, Len(heap) + 1)
       /\ UNCHANGED running
    \/ /\ heap # <<>>
       /\ Len(heap) + 2 <= MaxParsers
       /\ LET value == Len(heap)
              keyParser == ParserObject("string", <<>>, <<>>,
                                        StringOptions(None, None, FALSE, TRUE),
                                        <<"string">>)
          IN  /\ heap' = ReadTypes(heap, {value})
                         \o <<keyParser,
                              ParserObject("dict", <<>>, <<Len(heap) + 1, value>>,
                                           NoOptions,
                                           <<"Record<", "string", ",">>
                                           \o getParserType(heap, value) \o <<">">>)>>
              /\ last' = Built("dict", 0, Len(heap) + 2)
       /\ UNCHANGED running

\* src/core.ts:1980 singletonArray(valueParser): builds its array parser,
\* which reads valueParser.type, and takes over valueParser.type
singletonArray ==
    /\ CanBuild
    /\ heap # <<>>
    /\ LET valueParser == Len(heap)
       IN  /\ heap' = Append(ReadTypes(heap, {valueParser}),
                             ParserObject("singletonArray", <<>>, <<valueParser>>,
                                          NoOptions, getParserType(heap, valueParser)))
           /\ last' = Built("singletonArray", valueParser, Len(heap) + 1)
    /\ UNCHANGED running

\* the keys of the samples: the name a, bare and with one or two suffixes
SampleKeys ==
    {KeyA}
    \cup {KeyA \o <<x>> : x \in fieldNameSuffices}
    \cup {KeyA \o <<x, y>> :
             x \in {"$enums", "$null", "?"}, y \in {"$enums", "$null", "?"}}

\* the samples the calls of the model pass to inferFromSampleValue
Samples ==
    {Undefined, Null, NaN, Str(<<>>), Str(<<"x">>), Num(42), Frac(2, <<"5">>),
     Bool(TRUE), Bool(FALSE), Arr(<<>>), Arr(<<Str(<<"x">>)>>),
     Arr(<<Num(42), Str(<<"x">>)>>), Obj(<<>>, <<>>),
     Obj(<<KeyA, KeyB>>, <<Str(<<"x">>), Num(42)>>),
     Obj(<<KeyA, KeyA \o <<"?">>>>, <<Str(<<"x">>), Num(42)>>),
     Obj(<<KeyA \o <<"$enums", "$null">>>>, <<Arr(<<Num(42)>>)>>),
     Obj(<<KeyB>>, <<Obj(<<KeyA \o <<"?">>>>, <<Bool(TRUE)>>)>>),
     DateOf(0), Arr(<<Str(<<"x">>), Null>>), Arr(<<Null, Str(<<"x">>)>>),
     Obj(<<KeyA>>, <<Arr(<<>>)>>), Obj(<<KeyA, KeyB>>, <<Num(42), Null>>),
     Obj(<<KeyA \o <<"$null">>>>, <<Null>>),
     Obj(<<KeyA \o <<"$enums">>>>, <<Arr(<<Null>>)>>)}
    \cup {Obj(<<key>>, <<val>>) :
             key \in SampleKeys,
             val \in {Str(<<"x">>), Num(42), Arr(<<Str(<<"x">>), Str(<<"o", "n">>)>>)}}

\* src/core.ts:2342 the Error inferFromSampleValue throws
Unsupported(value) ==
    [NoError EXCEPT !.message = <<"unsupported sample value:">>
                                \o (IF value.t = "undefined" THEN <<"undefined">>
                                    ELSE Stringify(value))]

\* src/core.ts:2261 inferFromSampleValue(value), for the samples it accepts
infer ==
    \E value \in Samples :
        LET inferred == inferFromSampleValue(heap, value)
        IN  /\ CanBuild
            /\ inferred.ok
            /\ Len(inferred.h) <= MaxParsers
            /\ heap' = inferred.h
            /\ last' = [Built("inferFromSampleValue", 0, Len(inferred.h))
                          EXCEPT !.input = value]
            /\ UNCHANGED running

\* src/core.ts:2261 inferFromSampleValue(value), for the samples it throws
\* for: the parsers built before the throw are dropped with the call
inferUnsupported ==
    \E value \in Samples :
        LET inferred == inferFromSampleValue(heap, value)
        IN  /\ ~inferred.ok
            /\ last' = [Built("inferFromSampleValue", 0, 0)
                          EXCEPT !.input = value,
                                 !.result = Throw(Unsupported(inferred.value), <<>>)]
            /\ UNCHANGED heap
            /\ UNCHANGED running

\* the inputs the model hands to the parser at p: some of every kind, and
\* more of the kind the parser is built for
Probes == {Undefined, Null, Str(<<"x">>), Arr(<<>>), ObjectOf(Absent, Absent, Absent)}

RECURSIVE InputsFor(_, _)
InputsFor(h, p) ==
    Probes \cup
    CASE h[p].kind = "object" -> FlatObjects \cup NestedObjects
      [] h[p].kind = "dict" -> FlatObjects \cup NestedObjects \cup {Arr(<<Str(<<"x">>)>>)}
      [] h[p].kind \in {"array", "singletonArray"} ->
            Arrays \cup InputsFor(h, h[p].ids[1])
      [] h[p].kind \in {"nullable", "or"} ->
            UNION {InputsFor(h, h[p].ids[i]) : i \in 1..Len(h[p].ids)}
      [] h[p].kind = "boolean" ->
            Scalars \cup {Bool(TRUE), Bool(FALSE), Num(0), Str(<<"f", "a", "l", "s", "e">>)}
      [] h[p].kind \in {"int", "float", "id"} ->
            Scalars \cup {Num(0), Num(2), Frac(2, <<"5">>), Frac(3, <<"1", "4">>), NaN,
                         Str(<<"2", ".", "5">>), Str(<<"2", ".", "0">>),
                         Str(<<" ", "2">>), Bool(TRUE)}
      [] h[p].kind = "url" -> Urls
      [] h[p].kind \in {"date", "dateString", "timeString", "timestamp"} -> DateInputs
      [] OTHER -> Scalars

\* parser.parse(input, context) on the parser built last; parse leaves the
\* heap as it is, so a parse that follows a parse reaches nothing new
parse ==
    /\ heap # <<>>
    /\ last.op # "parse"
    /\ \E input \in InputsFor(heap, Len(heap)), context \in Contexts :
         last' = [op |-> "parse", arg |-> 0, p |-> Len(heap), input |-> input,
                  context |-> context,
                  result |-> Parse(heap, Len(heap), input, context)]
    /\ UNCHANGED heap
    /\ UNCHANGED running

\* parser.parse(value) on the value the parse before returned
reparse ==
    /\ last.op = "parse"
    /\ last.result.ok
    /\ last' = [last EXCEPT !.op = "reparse", !.input = last.result.value,
                            !.result = Parse(heap, last.p, last.result.value,
                                             last.context)]
    /\ UNCHANGED heap
    /\ UNCHANGED running

\* parser.parse(parser.sampleValue) on the parser built last
parseSample ==
    /\ heap # <<>>
    /\ last.op \notin {"parse", "reparse", "parseSample"}
    /\ last' = [op |-> "parseSample", arg |-> 0, p |-> Len(heap),
                input |-> sampleValue(heap, Len(heap)), context |-> EmptyCtx,
                result |-> Parse(heap, Len(heap), sampleValue(heap, Len(heap)),
                                 EmptyCtx)]
    /\ UNCHANGED heap
    /\ UNCHANGED running

(***************************************************************************)
(* Parse calls in progress. A call keeps its arguments (p, input, context) *)
(* and its locals: the position in its loop (pc, i), the output built so   *)
(* far (ks, xs: `object` of object.parse, `values` of array.parse) and the *)
(* errors caught so far (`errors` of or.parse). One step of a call is the  *)
(* code up to the loop, or one turn of the loop; the parse of a child is   *)
(* part of the turn. `tree` is the heap the call started on and `overlap`  *)
(* tells that the call took a turn while another call was inside its loop. *)
(***************************************************************************)
NewCall(h, p, input, context) ==
    [p |-> p, input |-> input, context |-> context, pc |-> "start", i |-> 1,
     ks |-> <<>>, xs |-> <<>>, errors |-> <<>>, result |-> Return(Undefined, <<>>),
     tree |-> h, overlap |-> FALSE]

Done(call, result) == [call EXCEPT !.pc = "done", !.result = result]

\* a variant in which every call builds its output in the lists of the
\* first call
AccumulatedShared(calls, k) ==
    [ks |-> calls[1].ks, xs |-> calls[1].xs, errors |-> calls[1].errors]

\* src/core.ts:984 `let object = {}`, src/core.ts:1950 `let values = []`,
\* src/core.ts:2030 `let errors = []`: the lists the k-th call builds are
\* locals of that call
Accumulated(calls, k) ==
    [ks |-> calls[k].ks, xs |-> calls[k].xs, errors |-> calls[k].errors]

\* src/core.ts:960 object.parse, one step
objectStep(h, call, acc) ==
    LET p == call.p
        input == call.input
        context == call.context
        expectedType == ExpectedType(context, <<"object">>)
        key == h[p].keys[call.i]
        valueParser == h[p].ids[call.i]
        valueInput == GetKey(input, key)
        skip == [call EXCEPT !.pc = "loop", !.i = call.i + 1]
        Parsed(r) ==
            IF r.ok
            THEN [skip EXCEPT !.ks = Append(acc.ks, key),
                              !.xs = Append(acc.xs, r.value)]
            ELSE Done(call, Throw(r.err, <<>>))
    IN  IF call.pc = "start"
        THEN IF input.t = "null"
             THEN Done(call, Throw(Invalid(context, expectedType, <<"got", "null">>),
                                   <<>>))
             ELSE IF TypeOf(input) # "object"
             THEN Done(call, Throw(Invalid(context, expectedType,
                                           <<"got">> \o toType(input)), <<>>))
             ELSE [call EXCEPT !.pc = "loop"]
        ELSE IF call.i > Len(h[p].keys)
        THEN Done(call, Return(Obj(acc.ks, acc.xs), <<>>))
        ELSE IF ~HasKey(input, key)
        THEN IF isOptional(h[valueParser]) THEN skip
             ELSE IF isCheckbox(h[valueParser])
             THEN [skip EXCEPT !.ks = Append(acc.ks, key),
                               !.xs = Append(acc.xs, Bool(FALSE))]
             ELSE Done(call, Throw(Invalid(context, expectedType,
                                           <<"missing">> \o Quote(key)), <<>>))
        ELSE IF valueInput.t \in {"null", "undefined"} /\ isOptional(h[valueParser])
        THEN skip
        ELSE Parsed(Parse(h, valueParser, valueInput, FieldContext(context.name, key)))

\* src/core.ts:1912 array.parse, one step
arrayStep(h, call, acc) ==
    LET p == call.p
        context == call.context
        options == h[p].options
        expectedType == ExpectedType(context, <<"array">>)
        input == IF call.input.t # "array" /\ options.maybeSingle
                 THEN Arr(<<call.input>>) ELSE call.input
        Parsed(r) ==
            IF r.ok THEN [call EXCEPT !.i = call.i + 1, !.xs = Append(acc.xs, r.value)]
            ELSE Done(call, Throw(r.err, <<>>))
    IN  IF call.pc = "start"
        THEN IF input.t # "array"
             THEN Done(call, Throw(Invalid(context, expectedType,
                                           <<"got">> \o toType(input)), <<>>))
             ELSE IF options.minLength # None /\ Len(input.xs) < options.minLength
             THEN Done(call, Throw(Invalid(context, expectedType,
                                           <<"minLength should be">>
                                           \o NumberToString(options.minLength)), <<>>))
             ELSE IF options.maxLength # None /\ Len(input.xs) > options.maxLength
             THEN Done(call, Throw(Invalid(context, expectedType,
                                           <<"maxLength should be">>
                                           \o NumberToString(options.maxLength)), <<>>))
             ELSE [call EXCEPT !.pc = "loop"]
        ELSE IF call.i > Len(input.xs)
        THEN Done(call, Return(Arr(acc.xs), <<>>))
        ELSE Parsed(Parse(h, h[p].ids[1], input.xs[call.i], ElementContext(context)))

\* src/core.ts:2028 or.parse, one step
orStep(h, call, acc) ==
    LET p == call.p
        context == call.context
        Parsed(r) ==
            IF r.ok THEN Done(call, Return(r.value, <<>>))
            ELSE [call EXCEPT !.i = call.i + 1, !.errors = Append(acc.errors, r.err)]
    IN  IF call.pc = "start" THEN [call EXCEPT !.pc = "loop"]
        ELSE IF call.i > Len(h[p].ids)
        THEN Done(call,
                  Throw(InvalidInputError(context.name, context.typePrefix,
                                          ExpectedType(context,
                                                       <<"union type of">> \o h[p].type),
                                          unionReason(acc.errors), context.reasonSuffix,
                                          acc.errors), <<>>))
        ELSE Parsed(Parse(h, h[p].ids[call.i], call.input, context))

\* one step of the k-th call in progress
Step(h, calls, k) ==
    LET call == calls[k]
        acc == Accumulated(calls, k)
        kind == h[call.p].kind
        busy == \E j \in 1..Len(calls) : j # k /\ calls[j].pc = "loop" /\ calls[j].i > 1
        after == CASE kind = "object" -> objectStep(h, call, acc)
                   [] kind = "array" -> arrayStep(h, call, acc)
                   [] kind = "or" -> orStep(h, call, acc)
                   [] OTHER -> Done(call, Parse(h, call.p, call.input, call.context))
    IN  [after EXCEPT !.overlap = call.overlap \/ (busy /\ call.pc = "loop")]

\* the arguments of the calls that run side by side
ConcurrentInputs ==
    {Str(<<"x">>), ObjectOf(Str(<<"x">>), Str(<<"x">>), Absent),
     ObjectOf(Str(<<"x">>), Null, Absent), Arr(<<Str(<<"x">>), Str(<<"x">>)>>),
     Arr(<<Str(<<"x">>), Null>>)}

ConcurrentContexts == {EmptyCtx, Ctx(<<"req">>, <<>>, <<>>, <<>>)}

\* two callers call parse on the parser built last, the second without a
\* context
begin ==
    /\ heap # <<>>
    /\ running = <<>>
    /\ \E a \in ConcurrentInputs, b \in ConcurrentInputs, c \in ConcurrentContexts :
         running' = <<NewCall(heap, Len(heap), a, c),
                      NewCall(heap, Len(heap), b, EmptyCtx)>>
    /\ UNCHANGED <<heap, last>>

\* one of the calls in progress takes its next step
step ==
    /\ \E k \in 1..Len(running) :
         /\ running[k].pc # "done"
         /\ running' = [running EXCEPT ![k] = Step(heap, running, k)]
    /\ UNCHANGED <<heap, last>>

Next ==
    \/ begin
    \/ step
    \/ string
    \/ number
    \/ float
    \/ id
    \/ int
    \/ url
    \/ checkbox
    \/ date
    \/ dateString
    \/ timeString
    \/ timestamp
    \/ boolean
    \/ literal
    \/ values
    \/ object
    \/ optional
    \/ nullable
    \/ array
    \/ or
    \/ dict
    \/ singletonArray
    \/ infer
    \/ inferUnsupported
    \/ parse
    \/ reparse
    \/ parseSample

Spec == Init /\ [][Next]_vars

\* the calls on object schemas
NextObject == string \/ checkbox \/ object \/ optional \/ parse

SpecObject == Init /\ [][NextObject]_vars

\* the calls on array schemas
NextArray == string \/ number \/ object \/ array \/ parse

SpecArray == Init /\ [][NextArray]_vars

\* the calls on wrapped and union schemas
NextUnion == string \/ number \/ nullable \/ optional \/ or \/ parse

SpecUnion == Init /\ [][NextUnion]_vars

\* the calls on wrapped schemas
NextWrap == string \/ object \/ nullable \/ parse

SpecWrap == Init /\ [][NextWrap]_vars

\* the calls on unions over strings and objects
NextAggregate == string \/ object \/ or \/ parse

SpecAggregate == Init /\ [][NextAggregate]_vars

\* the calls on dict schemas
NextDict == string \/ number \/ object \/ dict \/ parse

SpecDict == Init /\ [][NextDict]_vars

\* the calls on singletonArray schemas
NextSingleton == string \/ number \/ singletonArray \/ parse

SpecSingleton == Init /\ [][NextSingleton]_vars

\* the calls on the primitive parsers
NextPrimitive ==
    \/ string \/ number \/ float \/ int \/ boolean \/ checkbox \/ literal \/ values
    \/ parse \/ reparse

SpecPrimitive == Init /\ [][NextPrimitive]_vars

\* the calls that build a parser and parse its sample value
NextSample ==
    \/ string \/ int \/ checkbox \/ values \/ nullable \/ array \/ object \/ infer
    \/ parseSample

SpecSample == Init /\ [][NextSample]_vars

\* the calls on values parsers, alone, as object fields and in dicts
NextValues == values \/ object \/ dict \/ parse

SpecValues == Init /\ [][NextValues]_vars

\* the calls on number and int parsers
NextInt == number \/ int \/ parse

SpecInt == Init /\ [][NextInt]_vars

\* the calls on the parsers of numbers
NextNumber == number \/ float \/ int \/ id \/ parse

SpecNumber == Init /\ [][NextNumber]_vars

\* the calls on url parsers
NextUrl == url \/ parse

SpecUrl == Init /\ [][NextUrl]_vars

\* the calls that infer a parser and parse with it
NextInfer == infer \/ parse

SpecInfer == Init /\ [][NextInfer]_vars

\* the calls of inferFromSampleValue, on samples it accepts and on samples
\* it throws for
NextInferAny == infer \/ inferUnsupported

SpecInferAny == Init /\ [][NextInferAny]_vars

\* the calls that build a parser by hand or by inference
NextShape == checkbox \/ literal \/ object \/ optional \/ array \/ infer

SpecShape == Init /\ [][NextShape]_vars

\* the calls on schemas whose errors carry names, prefixes and suffixes
NextError == string \/ values \/ object \/ array \/ or \/ parse

SpecError == Init /\ [][NextError]_vars

\* the calls that build a schema and parse with it side by side
NextConcurrent == string \/ object \/ array \/ or \/ begin \/ step

SpecConcurrent == Init /\ [][NextConcurrent]_vars

\* the calls on date and time parsers
NextDate == date \/ dateString \/ timeString \/ timestamp \/ parse

SpecDate == Init /\ [][NextDate]_vars

\* the calls on the combinators that hand the error of a child on
NextFailFast == string \/ number \/ object \/ nullable \/ array \/ dict \/ parse

SpecFailFast == Init /\ [][NextFailFast]_vars

(***************************************************************************)
(* Claims                                                                  *)
(***************************************************************************)
IsParse == last.op = "parse"

Root == heap[last.p]

Outcome == last.result

\* text contains part as a run of consecutive tokens
Contains(text, part) ==
    \E i \in 0..(Len(text) - Len(part)) : SubSeq(text, i + 1, i + Len(part)) = part

\* the keys an object parser declares
Declared(parser) == {parser.keys[i] : i \in 1..Len(parser.keys)}

\* the input without the keys the parser does not declare
RECURSIVE KeepKeys(_, _, _)
KeepKeys(keys, vals, keep) ==
    IF keys = <<>> THEN Obj(<<>>, <<>>)
    ELSE LET rest == KeepKeys(Tail(keys), Tail(vals), keep)
         IN  IF Head(keys) \in keep
             THEN Obj(<<Head(keys)>> \o rest.ks, <<Head(vals)>> \o rest.xs)
             ELSE rest

Project(input, parser) == KeepKeys(input.ks, input.xs, Declared(parser))

\* a parse of a non-null object by an object parser
ObjectParsed ==
    /\ IsParse
    /\ Root.kind = "object"
    /\ TypeOf(last.input) = "object"
    /\ last.input.t # "null"

\* C1: object.parse is a projection: when it accepts a non-null object, the
\* keys of the output are declared keys, every declared field that is not
\* optional is in the output, no undeclared key of the input is in the
\* output; and undeclared keys never cause an error: the outcome is the
\* outcome for the input without them
C1_Projection ==
    ObjectParsed =>
        /\ Outcome.ok =>
             /\ \A i \in 1..Len(Outcome.value.ks) :
                   Outcome.value.ks[i] \in Declared(Root)
             /\ \A i \in 1..Len(Root.keys) :
                   ~heap[Root.ids[i]].optional => HasKey(Outcome.value, Root.keys[i])
             /\ \A i \in 1..Len(last.input.ks) :
                   last.input.ks[i] \notin Declared(Root)
                       => ~HasKey(Outcome.value, last.input.ks[i])
        /\ LET alone == Parse(heap, last.p, Project(last.input, Root), last.context)
           IN  /\ Outcome.ok = alone.ok
               /\ Outcome.value = alone.value
               /\ Outcome.err = alone.err

\* C1 witness: an object with an undeclared key is accepted and projected
C1_Witness ==
    /\ ObjectParsed
    /\ Outcome.ok
    /\ HasKey(last.input, KeyC)
    /\ Outcome.value.ks = <<KeyA>>

Nullish(v) == v.t \in {"null", "undefined"}

\* the name object.parse gives the context of its i-th declared field
FieldName(i) ==
    IF last.context.name # <<>>
    THEN last.context.name \o <<".">> \o Root.keys[i]
    ELSE Root.keys[i]

FieldInput(i) == GetKey(last.input, Root.keys[i])

\* what the parser of the i-th declared field makes of the field's input
FieldOutcome(i) ==
    Parse(heap, Root.ids[i], FieldInput(i), Ctx(FieldName(i), <<>>, <<>>, <<>>))

\* the parser of the i-th declared field was invoked
Invoked(i) ==
    \E j \in 1..Len(Outcome.calls) :
        /\ Outcome.calls[j].context.name = FieldName(i)
        /\ Outcome.calls[j].p = Root.ids[i]
        /\ Outcome.calls[j].input = FieldInput(i)

MissingReason(i) == <<"missing">> \o Quote(Root.keys[i])

\* object.parse failed because the key of the i-th declared field is missing
FailedMissing(i) ==
    /\ ~Outcome.ok
    /\ Outcome.err.reason = MissingReason(i)
    /\ Outcome.err.name = last.context.name

\* the i-th declared field does not stop object.parse
FieldPasses(i) ==
    LET field == heap[Root.ids[i]]
    IN  IF ~HasKey(last.input, Root.keys[i])
        THEN field.optional \/ field.checkbox
        ELSE (Nullish(FieldInput(i)) /\ field.optional) \/ FieldOutcome(i).ok

\* the three cases of C2 for the i-th declared field, where absent(v) says
\* which present values count as absence
OptionalCases(i, absent(_)) ==
    LET field == heap[Root.ids[i]]
        key == Root.keys[i]
        present == HasKey(last.input, key)
    IN  /\ (field.optional /\ (~present \/ absent(FieldInput(i)))) =>
             /\ ~Invoked(i)
             /\ Outcome.ok => ~HasKey(Outcome.value, key)
             /\ ~FailedMissing(i)
        /\ (field.optional /\ present /\ ~absent(FieldInput(i))) =>
             /\ Outcome.ok =>
                  /\ Invoked(i)
                  /\ FieldOutcome(i).ok
                  /\ HasKey(Outcome.value, key)
                  /\ GetKey(Outcome.value, key) = FieldOutcome(i).value
             /\ ~FieldOutcome(i).ok => ~Outcome.ok
        /\ (~field.optional /\ present /\ FieldInput(i) = Null) =>
             /\ Outcome.ok =>
                  /\ Invoked(i)
                  /\ FieldOutcome(i).ok
                  /\ HasKey(Outcome.value, key)
                  /\ GetKey(Outcome.value, key) = FieldOutcome(i).value
             /\ ~FieldOutcome(i).ok => ~Outcome.ok
             /\ ~FailedMissing(i)

IsNull(v) == v.t = "null"

\* C2 as stated: an optional field is omitted, without an error and without
\* its parser being invoked, when its key is absent or its value is null; an
\* optional field that is present with a non-null value is parsed and
\* included; null on a field that is not optional is handed to the parser
C2_Stated ==
    ObjectParsed => \A i \in 1..Len(Root.keys) : OptionalCases(i, IsNull)

\* C2 amended: an optional field is omitted, without an error and without
\* its parser being invoked, when its key is absent or its value is null or
\* undefined; an optional field that is present with any other value is
\* parsed and included; null on a field that is not optional is handed to
\* the parser
C2_OptionalOmitted ==
    ObjectParsed => \A i \in 1..Len(Root.keys) : OptionalCases(i, Nullish)

\* C2 witness: an optional field present with undefined is omitted while a
\* second field is parsed
C2_Witness ==
    /\ ObjectParsed
    /\ Outcome.ok
    /\ \E i \in 1..Len(Root.keys) :
          /\ heap[Root.ids[i]].optional
          /\ HasKey(last.input, Root.keys[i])
          /\ FieldInput(i) = Undefined
          /\ ~HasKey(Outcome.value, Root.keys[i])
    /\ Outcome.value.ks # <<>>

\* the cases of C3 for the parse at hand, with the expected type the error
\* of a missing key is to carry
AbsentCases(expectedType) ==
    \A i \in 1..Len(Root.keys) :
        LET field == heap[Root.ids[i]]
            key == Root.keys[i]
        IN  ~HasKey(last.input, key) =>
              /\ (field.checkbox /\ ~field.optional) =>
                   /\ ~Invoked(i)
                   /\ Outcome.ok =>
                        /\ HasKey(Outcome.value, key)
                        /\ GetKey(Outcome.value, key) = Bool(FALSE)
                   /\ (\A j \in 1..Len(Root.keys) : FieldPasses(j)) => Outcome.ok
              /\ (~field.checkbox /\ ~field.optional) =>
                   /\ ~Outcome.ok
                   /\ (\A j \in 1..(i - 1) : FieldPasses(j)) =>
                        /\ Outcome.err.reason = MissingReason(i)
                        /\ Outcome.err.expectedType = expectedType
                        /\ Outcome.err.name = last.context.name
                        /\ Contains(Outcome.err.message,
                                    expectedType
                                    \o (IF last.context.name # <<>>
                                        THEN Quote(last.context.name) ELSE <<>>)
                                    \o <<",">> \o MissingReason(i))

\* C3 as stated: for a declared key that is absent from the input, a
\* checkbox field that is not optional is false in the output, and a field
\* that is neither optional nor a checkbox fails the parse with reason
\* 'missing "<key>"' under the expected type 'object'
C3_Stated == ObjectParsed => AbsentCases(<<"object">>)

\* C3 amended: for a declared key that is absent from the input, a checkbox
\* field that is not optional is false in the output, and a field that is
\* neither optional nor a checkbox fails the parse with reason 'missing
\* "<key>"' under the expected type 'object', or under the type of the
\* context when the context overrides it
C3_AbsentKey ==
    ObjectParsed =>
        AbsentCases(IF last.context.overrideType # <<>>
                    THEN last.context.overrideType ELSE <<"object">>)

\* C3 witness: a checkbox field absent from the input became false, next to
\* a parse that failed on a missing required field
C3_Witness ==
    /\ ObjectParsed
    /\ Len(Root.keys) = 2
    /\ heap[Root.ids[1]].checkbox /\ ~heap[Root.ids[1]].optional
    /\ ~heap[Root.ids[2]].checkbox /\ ~heap[Root.ids[2]].optional
    /\ ~HasKey(last.input, Root.keys[1])
    /\ ~HasKey(last.input, Root.keys[2])
    /\ ~Outcome.ok
    /\ Outcome.err.message = <<"Invalid", "object", ",", "missing", "\"", "b", "\"">>

(* The declared paths of a parser: the sequences of keys that lead from it
   through nested object parsers to a field *)
RECURSIVE Paths(_, _)
Paths(h, p) ==
    IF h[p].kind # "object" THEN {}
    ELSE UNION {{<<h[p].keys[i]>>}
                \cup {<<h[p].keys[i]>> \o rest : rest \in Paths(h, h[p].ids[i])} :
                i \in 1..Len(h[p].keys)}

\* the field parser a declared path leads to
RECURSIVE ParserAt(_, _, _)
ParserAt(h, p, path) ==
    IF path = <<>> THEN p
    ELSE ParserAt(h,
                  h[p].ids[CHOOSE i \in 1..Len(h[p].keys) : h[p].keys[i] = Head(path)],
                  Tail(path))

\* the value a path leads to in an input
RECURSIVE ValueAt(_, _)
ValueAt(v, path) ==
    IF path = <<>> THEN v ELSE ValueAt(GetKey(v, Head(path)), Tail(path))

\* the keys of a path joined by '.', after the name of the root if it has one
RECURSIVE Dotted(_, _)
Dotted(name, path) ==
    IF path = <<>> THEN name
    ELSE Dotted(IF name # <<>> THEN name \o <<".">> \o Head(path) ELSE Head(path),
                Tail(path))

\* the call made on the field a path leads to, under the dotted name
CallAt(call, path) ==
    /\ call.p = ParserAt(heap, last.p, path)
    /\ call.input = ValueAt(last.input, path)
    /\ call.context.name = Dotted(last.context.name, path)

\* the calls of the outcome that failed; the last of them raised the error
FailedCalls ==
    {j \in 1..Len(Outcome.calls) :
        ~Parse(heap, Outcome.calls[j].p, Outcome.calls[j].input,
               Outcome.calls[j].context).ok}

Last(S) == CHOOSE j \in S : \A k \in S : k <= j

\* C4: object.parse names the context of each field parentName + '.' + key,
\* or key alone when it has no name, so every field parser at any depth is
\* called under the dotted path of declared keys from the root, after the
\* root name the caller supplied; the error a field raises carries that
\* path and quotes it in its message
C4_FieldNames ==
    ObjectParsed =>
        /\ \A j \in 1..Len(Outcome.calls) :
              \E path \in Paths(heap, last.p) : CallAt(Outcome.calls[j], path)
        /\ \A i \in 1..Len(Root.keys) :
              (Outcome.ok /\ HasKey(last.input, Root.keys[i])
                          /\ HasKey(Outcome.value, Root.keys[i])) =>
                  \E j \in 1..Len(Outcome.calls) :
                      /\ Outcome.calls[j].p = Root.ids[i]
                      /\ Outcome.calls[j].context.name =
                            (IF last.context.name # <<>>
                             THEN last.context.name \o <<".">> \o Root.keys[i]
                             ELSE Root.keys[i])
        /\ (~Outcome.ok /\ FailedCalls # {}) =>
              \E path \in Paths(heap, last.p) :
                  /\ CallAt(Outcome.calls[Last(FailedCalls)], path)
                  /\ Outcome.err.name = Dotted(last.context.name, path)
                  /\ Contains(Outcome.err.message,
                              Quote(Dotted(last.context.name, path)) \o <<",">>)

\* C4 witness: a field two objects deep failed under the root name 'req'
C4_Witness ==
    /\ ObjectParsed
    /\ ~Outcome.ok
    /\ Outcome.err.name = <<"req", ".", "b", ".", "a">>
    /\ Contains(Outcome.err.message, <<"\"", "req", ".", "b", ".", "a", "\"", ",">>)

\* C9: optional(p) returns a parser instance other than p and leaves p as
\* it was, so p is still not optional
C9_NewInstance ==
    last.op = "optional" =>
        /\ last.p # last.arg
        /\ ~heap[last.arg].optional

\* a parse by an array parser
ArrayParsed == IsParse /\ Root.kind = "array"

\* the list array.parse works on: the input, or the one-element list of the
\* input when it is not a list
Listed == IF last.input.t = "array" THEN last.input.xs ELSE <<last.input>>

\* what the element parser makes of an element under the context of the
\* array, which names no index
ElementOutcome(element) ==
    Parse(heap, Root.ids[1], element,
          Ctx(last.context.name,
              concat(<<"array of">>, last.context.typePrefix),
              concat(last.context.reasonSuffix, <<"in array">>),
              last.context.overrideType))

\* array.parse failed on an element
ElementRejected == ArrayParsed /\ ~Outcome.ok /\ Outcome.calls # <<>>

FirstRejected ==
    CHOOSE i \in 1..Len(Listed) :
        /\ ~ElementOutcome(Listed[i]).ok
        /\ \A j \in 1..(i - 1) : ElementOutcome(Listed[j]).ok

\* the error is the element's own under the context of the array, whatever
\* the index of the element
IndexFree ==
    /\ \E i \in 1..Len(Listed) : ~ElementOutcome(Listed[i]).ok
    /\ Outcome.err = ElementOutcome(Listed[FirstRejected]).err

\* 'Invalid array of <innerType>..., <innerReason> in array'
ArrayForm(message) ==
    /\ Len(message) >= 4
    /\ message[1] = "Invalid"
    /\ message[2] = "array of"
    /\ message[Len(message)] = "in array"

\* C5 as stated: whenever array.parse fails on an element, for every element
\* parser, the message has the form 'Invalid array of <innerType>...,
\* <innerReason> in array' and does not depend on the index of the element
C5_Stated ==
    ElementRejected => (ArrayForm(Outcome.err.message) /\ IndexFree)

\* C5 amended: whenever array.parse fails on an element, the error does not
\* depend on the index of the element, and its message has the form
\* 'Invalid array of <innerType>..., <innerReason> in array' unless the
\* error comes from a field inside an object element, whose name it then
\* carries
C5_ElementError ==
    ElementRejected =>
        /\ IndexFree
        /\ Outcome.err.name = last.context.name => ArrayForm(Outcome.err.message)

\* C5 witness: the second element of a list was rejected by the element
\* parser itself
C5_Witness ==
    /\ ElementRejected
    /\ Len(Listed) = 2
    /\ FirstRejected = 2
    /\ Outcome.err.name = last.context.name
    /\ Outcome.err.typePrefix = <<"array of", "outer of">>
    /\ Outcome.err.reasonSuffix = <<"in outer", "in array">>

LengthReason(which, n) == <<which>> \o NumberToString(n)

\* C6: array.parse rejects a non-list with 'got <type>' unless maybeSingle
\* is set, and then takes it as a one-element list; it rejects a list
\* shorter than minLength or longer than maxLength with 'minLength should be
\* n' or 'maxLength should be n' before any element is parsed; otherwise it
\* fails exactly when an element is rejected and returns the list of the
\* element parser's results, of the same length
C6_ArrayOptions ==
    ArrayParsed =>
        LET options == Root.options
        IN  IF last.input.t # "array" /\ ~options.maybeSingle
            THEN /\ ~Outcome.ok
                 /\ Outcome.err.reason = <<"got">> \o toType(last.input)
                 /\ Outcome.calls = <<>>
            ELSE IF options.minLength # None /\ Len(Listed) < options.minLength
            THEN /\ ~Outcome.ok
                 /\ Outcome.err.reason =
                       LengthReason("minLength should be", options.minLength)
                 /\ Outcome.calls = <<>>
            ELSE IF options.maxLength # None /\ Len(Listed) > options.maxLength
            THEN /\ ~Outcome.ok
                 /\ Outcome.err.reason =
                       LengthReason("maxLength should be", options.maxLength)
                 /\ Outcome.calls = <<>>
            ELSE /\ Outcome.ok = (\A i \in 1..Len(Listed) : ElementOutcome(Listed[i]).ok)
                 /\ Outcome.ok =>
                      /\ Outcome.value.t = "array"
                      /\ Len(Outcome.value.xs) = Len(Listed)
                      /\ \A i \in 1..Len(Listed) :
                            Outcome.value.xs[i] = ElementOutcome(Listed[i]).value

\* C6 witness: a list shorter than minLength was rejected although its
\* element would have been rejected too
C6_Witness ==
    /\ ArrayParsed
    /\ Root.options.minLength = 2
    /\ Len(Listed) = 1
    /\ ~ElementOutcome(Listed[1]).ok
    /\ ~Outcome.ok
    /\ Outcome.err.reason = <<"minLength should be", "2">>

\* a parse by a nullable parser
NullableParsed == IsParse /\ Root.kind = "nullable"

\* what the wrapped parser makes of the input under the caller's context
Wrapped == Parse(heap, Root.ids[1], last.input, last.context)

StartsWith(text, part) ==
    Len(part) <= Len(text) /\ SubSeq(text, 1, Len(part)) = part

EndsWith(text, part) ==
    Len(part) <= Len(text)
    /\ SubSeq(text, Len(text) - Len(part) + 1, Len(text)) = part

\* the error is the wrapped parser's but for its type prefix, in which
\* 'nullable' stands before the prefix of the context
NullablePrefixed ==
    /\ EndsWith(Outcome.err.typePrefix, <<"nullable">> \o last.context.typePrefix)
    /\ StartsWith(Outcome.err.message,
                  <<"Invalid">> \o Outcome.err.typePrefix \o Outcome.err.expectedType)
    /\ Outcome.err.name = Wrapped.err.name
    /\ Outcome.err.expectedType = Wrapped.err.expectedType
    /\ Outcome.err.reasonSuffix = Wrapped.err.reasonSuffix

\* nullable.parse(null) returns null without invoking the wrapped parser,
\* and on any other input has the wrapped parser's outcome
NullableDelegates ==
    IF last.input = Null
    THEN Outcome.ok /\ Outcome.value = Null /\ Outcome.calls = <<>>
    ELSE /\ Outcome.ok = Wrapped.ok
         /\ Outcome.value = Wrapped.value
         /\ Outcome.calls # <<>>
         /\ Outcome.calls[1].p = Root.ids[1]
         /\ Outcome.calls[1].input = last.input

\* C7 as stated: nullable.parse(null) returns null without invoking the
\* wrapped parser; on any other input, undefined too, the outcome is the
\* wrapped parser's, and every failure carries the type prefix 'nullable'
\* before the prefix of the context
C7_Stated ==
    NullableParsed =>
        /\ NullableDelegates
        /\ ~Outcome.ok => NullablePrefixed

\* C7 amended: nullable.parse(null) returns null without invoking the
\* wrapped parser; on any other input, undefined too, the outcome is the
\* wrapped parser's, and a failure carries the type prefix 'nullable' before
\* the prefix of the context unless it comes from a field inside an object,
\* whose error is then the wrapped parser's own
C7_Nullable ==
    NullableParsed =>
        /\ NullableDelegates
        /\ ~Outcome.ok =>
             IF Outcome.err.name = last.context.name
             THEN NullablePrefixed
             ELSE Outcome.err = Wrapped.err

\* C7 witness: undefined was handed to the wrapped parser and rejected
\* under a context that had a prefix
C7_Witness ==
    /\ NullableParsed
    /\ last.input = Undefined
    /\ ~Outcome.ok
    /\ Outcome.err.message =
          <<"Invalid", "nullable", "outer of", "string", ",", "got", "undefined",
            "in outer">>

\* C8: parse on a parser tagged optional has the outcome parse has on the
\* same parser without the tag, for every input and context: the same value
\* or the same error, so that undefined is rejected whenever the parser
\* rejects it
C8_OptionalParse ==
    (IsParse /\ Root.optional) =>
        Outcome = Parse([heap EXCEPT ![last.p].optional = FALSE], last.p,
                        last.input, last.context)

\* C8 witness: a parser tagged optional rejected undefined
C8_Witness ==
    /\ IsParse
    /\ Root.optional
    /\ last.input = Undefined
    /\ ~Outcome.ok
    /\ Contains(Outcome.err.message, <<"got", "undefined">>)

\* a parse by a union parser
OrParsed == IsParse /\ Root.kind = "or"

\* what the i-th candidate makes of the input
Candidate(i) == Parse(heap, Root.ids[i], last.input, last.context)

Accepting == {i \in 1..Len(Root.ids) : Candidate(i).ok}

First(S) == CHOOSE i \in S : \A j \in S : i <= j

\* the calls of or.parse when it tries the first k candidates
RECURSIVE CallsUpTo(_)
CallsUpTo(k) ==
    IF k = 0 THEN <<>>
    ELSE CallsUpTo(k - 1)
         \o <<Call(Root.ids[k], last.input, last.context)>> \o Candidate(k).calls

CandidateKinds == [i \in 1..Len(Root.ids) |-> heap[Root.ids[i]].kind]

\* C10: or.parse tries the candidates in array order and returns the result
\* of the first that accepts the input, without invoking the candidates
\* after it; so or([string(), number()]).parse(42) is '42' while
\* or([number(), string()]).parse('42') is 42
C10_FirstAccepting ==
    OrParsed =>
        /\ IF Accepting # {}
           THEN /\ Outcome.ok
                /\ Outcome.value = Candidate(First(Accepting)).value
                /\ Outcome.calls = CallsUpTo(First(Accepting))
           ELSE /\ ~Outcome.ok
                /\ Outcome.calls = CallsUpTo(Len(Root.ids))
        /\ (CandidateKinds = <<"string", "number">> /\ last.input = Num(42)) =>
              Outcome.value = Str(<<"4", "2">>)
        /\ (CandidateKinds = <<"number", "string">> /\ last.input = Str(<<"4", "2">>)) =>
              Outcome.value = Num(42)

\* C10 witness: or([string(), number()]) turned 42 into '42' and never
\* called the number parser, which accepts 42 too
C10_Witness ==
    /\ OrParsed
    /\ CandidateKinds = <<"string", "number">>
    /\ last.input = Num(42)
    /\ Candidate(2).ok
    /\ Candidate(2).value = Num(42)
    /\ Outcome.value = Str(<<"4", "2">>)
    /\ Len(Outcome.calls) = 1

\* the elements of a sequence in the order of their first occurrence
RECURSIVE Distinct(_)
Distinct(seq) ==
    IF seq = <<>> THEN <<>>
    ELSE LET front == Distinct(SubSeq(seq, 1, Len(seq) - 1))
             x == seq[Len(seq)]
         IN  IF \E i \in 1..Len(front) : front[i] = x THEN front ELSE Append(front, x)

\* the texts of a sequence, each in parentheses, joined by 'and'
RECURSIVE Parenthesised(_)
Parenthesised(texts) ==
    IF texts = <<>> THEN <<>>
    ELSE (IF Len(texts) > 1
          THEN Parenthesised(SubSeq(texts, 1, Len(texts) - 1)) \o <<"and">>
          ELSE <<>>)
         \o <<"(">> \o texts[Len(texts)] \o <<")">>

\* the concatenation of a sequence of texts
RECURSIVE Flatten(_)
Flatten(texts) == IF texts = <<>> THEN <<>> ELSE Head(texts) \o Flatten(Tail(texts))

\* the messages of the candidates' errors, in candidate order
ChildMessages == [i \in 1..Len(Root.ids) |-> Candidate(i).err.message]

\* the child messages without a 'got' fragment, and the 'got' fragments of
\* the others
PlainMessages ==
    Distinct(Flatten([i \in 1..Len(Root.ids) |->
                IF GotFragment(ChildMessages[i]) = <<>>
                THEN <<ChildMessages[i]>> ELSE <<>>]))

GotFragments ==
    Distinct(Flatten([i \in 1..Len(Root.ids) |->
                IF GotFragment(ChildMessages[i]) = <<>>
                THEN <<>> ELSE <<GotFragment(ChildMessages[i])>>]))

\* 'got' and the fragments: one fragment bare, several in parentheses
GotClause ==
    IF GotFragments = <<>> THEN <<>>
    ELSE <<"got">> \o (IF Len(GotFragments) = 1 THEN GotFragments[1]
                       ELSE Parenthesised(GotFragments))

\* '(<t1> | ... | <tn>)' over the types of the candidates
RECURSIVE CandidateTypes(_)
CandidateTypes(k) ==
    IF k = 0 THEN <<>>
    ELSE (IF k > 1 THEN CandidateTypes(k - 1) \o <<"|">> ELSE <<>>)
         \o heap[Root.ids[k]].type

\* C11: or.parse(x) throws exactly when every candidate rejects x; the error
\* then holds one child error per candidate in candidate order, its expected
\* type is 'union type of (<t1> | ... | <tn>)', and its reason lists every
\* distinct child message without a 'got' fragment once, in parentheses
\* joined by 'and', followed by one 'got' clause of the distinct fragments
C11_Aggregation ==
    (OrParsed /\ last.context.overrideType = <<>>) =>
        /\ Outcome.ok = (Accepting # {})
        /\ ~Outcome.ok =>
             /\ Len(Outcome.err.errors) = Len(Root.ids)
             /\ \A i \in 1..Len(Root.ids) : Outcome.err.errors[i] = Candidate(i).err
             /\ Outcome.err.expectedType =
                   <<"union type of", "(">> \o CandidateTypes(Len(Root.ids)) \o <<")">>
             /\ Outcome.err.reason =
                   Parenthesised(PlainMessages)
                   \o (IF PlainMessages # <<>> /\ GotFragments # <<>>
                       THEN <<",">> ELSE <<>>)
                   \o GotClause
             /\ Contains(Outcome.err.message,
                         Outcome.err.expectedType
                         \o (IF last.context.name # <<>>
                             THEN Quote(last.context.name) ELSE <<>>)
                         \o <<",">> \o Outcome.err.reason)

\* C11 witness: both candidates failed with the same message without a
\* 'got' fragment, which the reason lists once
C11_Witness ==
    /\ OrParsed
    /\ last.context.overrideType = <<>>
    /\ ~Outcome.ok
    /\ Len(Outcome.err.errors) = 2
    /\ Outcome.err.errors[1] = Outcome.err.errors[2]
    /\ Outcome.err.reason =
          <<"(", "Invalid", "object", ",", "missing", "\"", "a", "\"", ")">>

\* a parse by a dict parser of an input that its object check lets through
DictParsed ==
    /\ IsParse
    /\ Root.kind = "dict"
    /\ TypeOf(last.input) = "object"
    /\ last.input.t # "null"

\* what the key parser makes of the i-th key of the input, and the value
\* parser of its value, each under the suffix dict names for it
KeyOutcome(i) ==
    Parse(heap, Root.ids[1], Str(OwnKeys(last.input)[i]),
          Ctx(last.context.name, last.context.typePrefix, <<"in key">>,
              IF last.context.overrideType # <<>> THEN last.context.overrideType
              ELSE <<"dict/record">>))

ValueOutcome(i) ==
    Parse(heap, Root.ids[2], last.input.xs[i],
          Ctx(last.context.name, last.context.typePrefix, <<"in value">>,
              IF last.context.overrideType # <<>> THEN last.context.overrideType
              ELSE <<"dict/record">>))

BadEntries ==
    {i \in 1..Len(OwnKeys(last.input)) : ~KeyOutcome(i).ok \/ ~ValueOutcome(i).ok}

KeyRejected == BadEntries # {} /\ ~KeyOutcome(First(BadEntries)).ok

ValueRejected == BadEntries # {} /\ KeyOutcome(First(BadEntries)).ok

\* the error carries the reason suffix
Carries(suffix) ==
    /\ Contains(Outcome.err.reasonSuffix, suffix)
    /\ Contains(Outcome.err.message, Outcome.err.reason \o suffix)

\* C12 as stated: every error dict.parse throws because the key parser
\* rejects a key carries the reason suffix 'in key', and every error it
\* throws because the value parser rejects a value carries 'in value', also
\* when the value parser is an object and the rejected value is a nested
\* field
C12_Stated ==
    DictParsed =>
        /\ Outcome.ok = (BadEntries = {})
        /\ KeyRejected => Carries(<<"in key">>)
        /\ ValueRejected => Carries(<<"in value">>)

\* C12 amended: every error dict.parse throws because the key parser
\* rejects a key carries the reason suffix 'in key', and every error it
\* throws because the value parser rejects a value carries 'in value',
\* unless the error comes from inside the value: from a field of an object
\* value, which is the field's own error under the field's name, or from a
\* dict value, which carries that dict's own 'in key' or 'in value'
C12_DictSuffix ==
    DictParsed =>
        /\ Outcome.ok = (BadEntries = {})
        /\ KeyRejected => Carries(<<"in key">>)
        /\ ValueRejected =>
             /\ Outcome.err = ValueOutcome(First(BadEntries)).err
             /\ Outcome.err.name = last.context.name =>
                   \/ Carries(<<"in value">>)
                   \/ heap[Root.ids[2]].kind = "dict" /\ Carries(<<"in key">>)

\* C12 witness: the value parser rejected the value of the second key
C12_Witness ==
    /\ DictParsed
    /\ ValueRejected
    /\ First(BadEntries) = 2
    /\ Outcome.err.message = <<"Invalid", "dict/record", ",", "got", "null", "in value">>

\* a parse by a singletonArray parser called without an overriding type
SingletonParsed ==
    /\ IsParse
    /\ Root.kind = "singletonArray"
    /\ last.context.overrideType = <<>>

\* C13: singletonArray(p).parse(x) succeeds exactly when x is a list of one
\* element that p accepts, and returns p's result for the element, not a
\* list; the empty list fails with 'minLength should be 1' and a longer
\* list with 'maxLength should be 1', both under the expected type
\* 'singletonArray'
C13_SingletonArray ==
    SingletonParsed =>
        LET one == last.input.t = "array" /\ Len(last.input.xs) = 1
            element == Parse(heap, Root.ids[1], last.input.xs[1], last.context)
            LengthError(reason) ==
                /\ ~Outcome.ok
                /\ Outcome.err.reason = reason
                /\ Outcome.err.expectedType = <<"singletonArray">>
                /\ Contains(Outcome.err.message,
                            <<"singletonArray">>
                            \o (IF last.context.name # <<>>
                                THEN Quote(last.context.name) ELSE <<>>)
                            \o <<",">> \o reason)
        IN  /\ Outcome.ok = (one /\ element.ok)
            /\ Outcome.ok => Outcome.value = element.value
            /\ last.input = Arr(<<>>) => LengthError(<<"minLength should be", "1">>)
            /\ (last.input.t = "array" /\ Len(last.input.xs) >= 2) =>
                  LengthError(<<"maxLength should be", "1">>)

\* C13 witness: the one-element list of a string gave the string
C13_Witness ==
    /\ SingletonParsed
    /\ last.input = Arr(<<Str(<<"x">>)>>)
    /\ Outcome.ok
    /\ Outcome.value = Str(<<"x">>)

\* the parsers the library calls primitive, as far as the model builds them
PrimitiveKinds ==
    {"string", "number", "float", "int", "boolean", "checkbox", "literal", "values"}

\* C14: re-parsing is idempotent for every primitive parser: the value a
\* parse returned is accepted by the same parser, which returns it
C14_Idempotent ==
    (last.op = "reparse" /\ Root.kind \in PrimitiveKinds) =>
        /\ Outcome.ok
        /\ Outcome.value = last.input

\* C15: the sampleValue of a parser built without custom sample options,
\* or returned by inferFromSampleValue, is accepted by the parser
C15_SampleValid == last.op = "parseSample" => Outcome.ok

\* the parse calls of the latest parse, the call itself included
AllCalls == <<Call(last.p, last.input, last.context)>> \o Outcome.calls

\* the calls in which a values parser rejected its input
ValuesRejections ==
    {j \in 1..Len(AllCalls) :
        /\ IsParse
        /\ heap[AllCalls[j].p].kind = "values"
        /\ ~Parse(heap, AllCalls[j].p, AllCalls[j].input, AllCalls[j].context).ok}

Rejection(j) == Parse(heap, AllCalls[j].p, AllCalls[j].input, AllCalls[j].context).err

\* the error of call j embeds the allowed list and the name of the context
EmbedsListAndName(j) ==
    /\ Contains(Rejection(j).message,
                <<"expect">> \o StringifyList(heap[AllCalls[j].p].options.values))
    /\ AllCalls[j].context.name # <<>> =>
          Contains(Rejection(j).message, Quote(AllCalls[j].context.name))

IntParsed ==
    /\ IsParse
    /\ Root.kind = "int"
    /\ last.context.overrideType = <<>>

\* number(opts).parse on the input of the latest parse, for the options of
\* the int parser
AsNumber == numberParse(Root.options, last.input, last.context)

\* C17: int(opts).parse(x) succeeds exactly when number(opts).parse(x)
\* succeeds with an integer, and returns that number; a non-integer result
\* fails with 'got floating point number'; when number(opts) fails, int
\* fails with the same reason under the expected type 'int'
C17_IntRefinesNumber ==
    IntParsed =>
        /\ Outcome.ok = (AsNumber.ok /\ IsInteger(AsNumber.value))
        /\ Outcome.ok => Outcome.value = AsNumber.value
        /\ (AsNumber.ok /\ ~IsInteger(AsNumber.value)) =>
              /\ Outcome.err.reason = <<"got floating point number">>
              /\ Outcome.err.expectedType = <<"int">>
        /\ ~AsNumber.ok =>
              /\ Outcome.err.reason = AsNumber.err.reason
              /\ Outcome.err.expectedType = <<"int">>
              /\ Outcome.err.message =
                    ErrorMessage(last.context.name, last.context.typePrefix, <<"int">>,
                                 AsNumber.err.reason, last.context.reasonSuffix)

\* C17 witness: the string "42" gave the number 42
C17_Witness ==
    /\ IntParsed
    /\ last.input = Str(<<"4", "2">>)
    /\ Outcome.ok
    /\ Outcome.value = Num(42)

UrlParsed == IsParse /\ Root.kind = "url"

\* the text has the form <protocol>://<domain>[/...]
UrlForm(text, protocol, domain) ==
    /\ protocol # <<>>
    /\ domain # <<>>
    /\ \E rest \in {SubSeq(text, k, Len(text)) : k \in 1..Len(text) + 1} :
          /\ text = protocol \o <<":", "/", "/">> \o domain \o rest
          /\ rest = <<>> \/ Head(rest) = "/"

Prefixes(text) == {SubSeq(text, 1, k) : k \in 0..Len(text)}

Infixes(text) == UNION {Prefixes(SubSeq(text, k, Len(text))) : k \in 1..Len(text) + 1}

\* the text is a url the options allow
UrlAllowed(text, options) ==
    \E protocol \in Prefixes(text), domain \in Infixes(text) :
        /\ UrlForm(text, protocol, domain)
        /\ options.protocol # Undefined => Str(protocol) = options.protocol
        /\ options.protocols # Undefined =>
              \E k \in 1..Len(options.protocols.xs) :
                  options.protocols.xs[k] = Str(protocol)
        /\ options.domain # Undefined => Str(domain) = options.domain

\* the string url.parse accepts: the input, trimmed unless trim is false
Accepted == IF Root.options.trim THEN Str(Trim(last.input.s)) ELSE last.input

\* C18 as stated: url(opts).parse(x) succeeds only when x is a non-empty
\* string of the form <protocol>://<domain>[/...] that the options allow,
\* the empty string is rejected with default options, and on success the
\* accepted (trimmed) string is returned
C18_Stated ==
    UrlParsed =>
        /\ Outcome.ok =>
              /\ last.input.t = "string"
              /\ last.input.s # <<>>
              /\ UrlAllowed(Accepted.s, Root.options)
              /\ Outcome.value = Accepted
        /\ last.input = Str(<<>>) => ~Outcome.ok

\* C18 amended: url(opts).parse(x) succeeds only when x is the empty string
\* and nonEmpty is not set, and then returns '', or x is a non-empty string
\* of that form that the options allow, and then returns the accepted
\* (trimmed) string; the empty string is rejected when nonEmpty is set
C18_Url ==
    UrlParsed =>
        /\ Outcome.ok =>
              /\ last.input.t = "string"
              /\ IF last.input.s = <<>>
                 THEN ~Root.options.nonEmpty /\ Outcome.value = Str(<<>>)
                 ELSE /\ UrlAllowed(Accepted.s, Root.options)
                      /\ Outcome.value = Accepted
        /\ (last.input = Str(<<>>) /\ Root.options.nonEmpty) => ~Outcome.ok

\* C18 witness: a url with blanks around it was accepted under a protocol
\* and a domain option and returned trimmed
C18_Witness ==
    /\ UrlParsed
    /\ Root.options.protocol = Str(<<"h">>)
    /\ Root.options.domain = Str(<<"d">>)
    /\ last.input = Str(<<" ", "h", ":", "/", "/", "d", " ">>)
    /\ Outcome.ok
    /\ Outcome.value = Str(<<"h", ":", "/", "/", "d">>)

\* inferFromSampleValue has just returned the parser of an object sample
InferredObject ==
    /\ last.op = "inferFromSampleValue"
    /\ last.result.ok
    /\ last.input.t = "object"

\* the suffixes the claim recognises on the key of a value
Recognised(val) ==
    {"$nullable", "$null", "$optional", "?"}
    \cup (IF val.t = "array" THEN {"$enums", "$enum"} ELSE {})

\* where the run of recognised suffixes at the end of the key begins
SuffixStart(key, val) ==
    CHOOSE k \in 1..Len(key) + 1 :
        /\ \A j \in k..Len(key) : key[j] \in Recognised(val)
        /\ k > 1 => key[k - 1] \notin Recognised(val)

CanonicalName(key, val) == SubSeq(key, 1, SuffixStart(key, val) - 1)

SuffixKind(suffix) ==
    CASE suffix \in {"$enums", "$enum"} -> "enum"
      [] suffix \in {"$nullable", "$null"} -> "nullable"
      [] OTHER -> "optional"

SuffixKinds(key, val) == {SuffixKind(key[j]) : j \in SuffixStart(key, val)..Len(key)}

\* what a parse of x by the parser at p of the heap h gives
Behaviour(h, p, x) ==
    LET r == Parse(h, p, x, EmptyCtx)
    IN  [ok |-> r.ok, value |-> r.value, message |-> r.err.message]

\* the parsers at p of h and at q of g have the same type and parse alike
SameParser(h, p, g, q) ==
    /\ TypeRead(h, p) = TypeRead(g, q)
    /\ h[p].optional = g[q].optional
    /\ \A x \in FlatObjects \cup Scalars \cup Arrays
                 \cup {ObjectOf(Num(42), Absent, Absent)} :
          Behaviour(h, p, x) = Behaviour(g, q, x)

\* the last key of the sample with the canonical name of key i
Effective(i) ==
    \A j \in (i + 1)..Len(last.input.ks) :
        CanonicalName(last.input.ks[j], last.input.xs[j])
            # CanonicalName(last.input.ks[i], last.input.xs[i])

\* the field parser declared under the canonical name of key i
FieldOf(i) ==
    LET name == CanonicalName(last.input.ks[i], last.input.xs[i])
    IN  heap[last.p].ids[CHOOSE k \in 1..Len(heap[last.p].keys) :
                            heap[last.p].keys[k] = name]

\* the parser inferFromSampleValue gives for the value alone
Alone(val) == inferFromSampleValue(<<>>, val).h

\* C19: inferFromSampleValue strips every recognised suffix of a key,
\* declares the field under the canonical name, takes values(list) for an
\* enum suffix and the parser inferred from the value otherwise, wraps it in
\* nullable iff a nullable suffix occurred and tags it optional iff an
\* optional suffix occurred; keys with the same canonical name and the same
\* suffix kinds give parsers of the same type and parse behaviour
C19_SuffixOrder ==
    InferredObject =>
        /\ \A i \in 1..Len(last.input.ks) :
              LET key == last.input.ks[i]
                  val == last.input.xs[i]
                  kinds == SuffixKinds(key, val)
                  outer == FieldOf(i)
                  inner == IF "nullable" \in kinds THEN heap[outer].ids[1] ELSE outer
              IN  /\ \E k \in 1..Len(heap[last.p].keys) :
                        heap[last.p].keys[k] = CanonicalName(key, val)
                  /\ Effective(i) =>
                        /\ heap[outer].optional = ("optional" \in kinds)
                        /\ (heap[outer].kind = "nullable") = ("nullable" \in kinds)
                        /\ IF "enum" \in kinds
                           THEN /\ heap[inner].kind = "values"
                                /\ heap[inner].options.values = val.xs
                           ELSE SameParser([heap EXCEPT ![inner].optional = FALSE], inner,
                                           Alone(val), Len(Alone(val)))
        /\ Len(last.input.ks) = 1 =>
              \A other \in SampleKeys :
                  LET key == last.input.ks[1]
                      val == last.input.xs[1]
                      twin == inferFromSampleValue(<<>>, Obj(<<other>>, <<val>>)).h
                  IN  (/\ CanonicalName(other, val) = CanonicalName(key, val)
                       /\ SuffixKinds(other, val) = SuffixKinds(key, val)) =>
                          SameParser(heap, last.p, twin, Len(twin))

\* C19 witness: the key a?$enums of a list was declared as the optional
\* field a over values(list), and the parser accepts {a: 'x'} and rejects
\* {a: 42}
C19_Witness ==
    /\ InferredObject
    /\ last.input = Obj(<<KeyA \o <<"?", "$enums">>>>,
                        <<Arr(<<Str(<<"x">>), Str(<<"o", "n">>)>>)>>)
    /\ heap[last.p].keys = <<KeyA>>
    /\ heap[FieldOf(1)].kind = "values"
    /\ heap[FieldOf(1)].optional
    /\ Parse(heap, last.p, ObjectOf(Str(<<"x">>), Absent, Absent), EmptyCtx).ok
    /\ ~Parse(heap, last.p, ObjectOf(Num(42), Absent, Absent), EmptyCtx).ok

\* the type is a single word
OneWord(type) ==
    \/ Len(type) = 1 /\ type[1] \notin {"\"", "|", "{", "}"}
    \/ type # <<>> /\ \A k \in 1..Len(type) : IsDigit(type[k])

\* the keys of the sample with the canonical name of key i: as in an
\* object literal, a repeated name keeps its first place and its last value
SameName(value, i) ==
    {j \in 1..Len(value.ks) :
        CanonicalName(value.ks[j], value.xs[j]) = CanonicalName(value.ks[i], value.xs[i])}

\* the type of the combinator chain one would build by hand for the shape
\* of the sample: string(), int() or float(), boolean(), array(...), and
\* object({...}) with values, nullable and optional for the decoded suffixes
RECURSIVE ShapeType(_)
RECURSIVE ShapeFields(_, _)
ShapeType(value) ==
    CASE value.t = "string" -> <<"string">>
      [] value.t \in {"number", "NaN"} -> <<"number">>
      [] value.t = "boolean" -> <<"boolean">>
      [] value.t = "date" -> <<"Date">>
      [] value.t = "array" -> <<"Array<">> \o ShapeType(value.xs[1]) \o <<">">>
      [] value.t = "object" -> <<"{">> \o ShapeFields(value, 1) \o <<"\n", "}">>

ShapeFields(value, i) ==
    IF i > Len(value.ks) THEN <<>>
    ELSE IF \E j \in SameName(value, i) : j < i THEN ShapeFields(value, i + 1)
    ELSE LET latest == CHOOSE j \in SameName(value, i) : \A k \in SameName(value, i) : k <= j
             key == value.ks[latest]
             val == value.xs[latest]
             kinds == SuffixKinds(key, val)
             plain == IF "enum" \in kinds THEN ValuesType(val.xs) ELSE ShapeType(val)
             type == IF "nullable" \notin kinds THEN plain
                     ELSE IF OneWord(plain) THEN <<"null", "|">> \o plain
                     ELSE <<"null", "|", "(">> \o plain \o <<")">>
         IN  <<"\n", "  ">> \o toFieldName(CanonicalName(key, val))
             \o (IF "optional" \in kinds THEN <<"?:">> ELSE <<":">>)
             \o Indent(type)
             \o ShapeFields(value, i + 1)

\* inferFromSampleValue has just returned a parser
Inferred == last.op = "inferFromSampleValue" /\ last.result.ok

\* the parser built last came from a factory or combinator
HandBuilt == last.op \in {"checkbox", "literal", "object", "array"}

\* what inferFromSampleValue gives for the sample value of the parser built
\* last
FromSample == inferFromSampleValue(<<>>, sampleValue(heap, last.p))

\* the type of the parser inferred from an accepted sample is the type of
\* the hand-built chain of the same shape
ShapeTypeInferred == Inferred => TypeRead(heap, last.p) = ShapeType(last.input)

RECURSIVE ShapeTyped(_, _)
ShapeTyped(h, p) ==
    CASE h[p].kind \in {"string", "number", "float", "int", "boolean", "checkbox",
                        "url"} -> TRUE
      [] h[p].kind = "array" -> ShapeTyped(h, h[p].ids[1])
      [] h[p].kind = "object" ->
            \A i \in 1..Len(h[p].ids) :
                ShapeTyped(h, h[p].ids[i]) /\ ~h[h[p].ids[i]].optional
      [] OTHER -> FALSE

RECURSIVE ErrorsOf(_)
ErrorsOf(err) == {err} \cup UNION {ErrorsOf(err.errors[i]) : i \in 1..Len(err.errors)}

\* the bracketed part of a message: there iff the option is not empty
Bracketed(option, part) == IF option = <<>> THEN <<>> ELSE part

\* 'Invalid ' + [typePrefix + ' '] + expectedType + [' ' + JSON-quoted name]
\* + ', ' + reason + [' ' + reasonSuffix]
StatedMessage(e) ==
    <<"Invalid">> \o Bracketed(e.typePrefix, e.typePrefix) \o e.expectedType
    \o Bracketed(e.name, <<"\"">> \o e.name \o <<"\"">>)
    \o <<",">> \o e.reason \o Bracketed(e.reasonSuffix, e.reasonSuffix)

\* C21: every InvalidInputError a parse throws or collects has the message
\* 'Invalid [typePrefix ]expectedType[ "name"], reason[ reasonSuffix]' over
\* the options it was built from, each bracketed part there iff the option
\* is present and not empty, and its status and statusCode are 400
C21_ErrorShape ==
    IsParse /\ ~Outcome.ok =>
        \A e \in ErrorsOf(Outcome.err) :
            /\ e.message = StatedMessage(e)
            /\ e.status = 400
            /\ e.statusCode = 400

\* a union rejects an input with an error without prefix and suffix, and
\* one of its candidates, an array, threw an error with a name, a prefix
\* and a suffix
C21_Witness ==
    /\ IsParse
    /\ ~Outcome.ok
    /\ Root.kind = "or"
    /\ \E e \in ErrorsOf(Outcome.err) :
          /\ e # Outcome.err
          /\ e.name # <<>>
          /\ e.typePrefix # <<>>
          /\ e.reasonSuffix # <<>>
    /\ Outcome.err.typePrefix = <<>>
    /\ Outcome.err.reasonSuffix = <<>>

(***************************************************************************)
(* C22: parse calls side by side                                           *)
(***************************************************************************)
\* the parsers the call started on are as they were
TreeKept(call) == SubSeq(heap, 1, Len(call.tree)) = call.tree

\* C22: whatever the order in which the steps of two parse calls on one
\* parser are taken, a call that has ended on a tree nobody changed has
\* returned the value or thrown the error of the same call run alone
C22_NoInterference ==
    \A k \in 1..Len(running) :
        LET call == running[k]
            alone == Parse(heap, call.p, call.input, call.context)
        IN  call.pc = "done" /\ TreeKept(call) =>
                /\ call.result.ok = alone.ok
                /\ call.result.value = alone.value
                /\ call.result.err = alone.err

\* two calls with different inputs on one object parser have ended, each
\* took a turn while the other was inside its loop, one returned and the
\* other threw
C22_Witness ==
    /\ Len(running) = 2
    /\ heap[running[1].p].kind = "object"
    /\ \A k \in 1..2 : running[k].pc = "done" /\ running[k].overlap /\ TreeKept(running[k])
    /\ running[1].input # running[2].input
    /\ running[1].result.ok
    /\ Len(running[1].result.value.ks) = 2
    /\ ~running[2].result.ok

(***************************************************************************)
(* C23, C27: date and time strings                                         *)
(***************************************************************************)
TimeKinds == {"dateString", "timeString", "timestamp"}

\* the canonical string of a date for a parser: 'yyyy-mm-dd',
\* 'hh:mm[:ss[.mmm]]' or 'yyyy-mm-dd hh:mm[:ss[.mmm]]' at its precision
CanonicalString(parser, when) ==
    LET precision == IF parser.options.precision # "" THEN parser.options.precision
                     ELSE IF parser.kind = "timeString" THEN "minute" ELSE "second"
        day == YearMonth \o d2(getDate(when))
        time == d2(getHours(when)) \o <<":">> \o d2(getMinutes(when))
                \o (IF precision = "minute" THEN <<>>
                    ELSE <<":">> \o d2(getSeconds(when)))
                \o (IF precision = "millisecond"
                    THEN <<".">> \o d3(getMilliseconds(when)) ELSE <<>>)
    IN  CASE parser.kind = "dateString" -> day
          [] parser.kind = "timeString" -> time
          [] parser.kind = "timestamp" -> day \o <<" ">> \o time

\* C23: dateString, timeString and timestamp without bounds accept every
\* input date() accepts and return the canonical string of that date, at
\* every precision
C23_SameDomain ==
    LET asDate == parseDate(last.input, EmptyCtx)
    IN  /\ IsParse
        /\ Root.kind \in TimeKinds
        /\ Root.options.dateMin = Undefined
        /\ Root.options.dateMax = Undefined
        /\ asDate.ok
        => /\ Outcome.ok
           /\ Outcome.value = Str(CanonicalString(Root, asDate.value))

\* the parser without its bounds returns x as it is: x is written in the
\* output format of the parser
Canonical(x) ==
    LET unbounded == [Root EXCEPT !.options.dateMin = Undefined,
                                  !.options.dateMax = Undefined]
        r == Parse(<<unbounded>>, 1, x, EmptyCtx)
    IN  r.ok /\ r.value = x

\* C27: the bounds of date, dateString, timeString and timestamp are
\* inclusive: an input equal to the configured min or max, written in the
\* output format of the parser, is accepted
C27_InclusiveBounds ==
    /\ IsParse
    /\ Root.kind \in TimeKinds \cup {"date"}
    /\ last.input \in {Root.options.dateMin, Root.options.dateMax} \ {Undefined}
    /\ Canonical(last.input)
    => Outcome.ok

(***************************************************************************)
(* C24: object, array, dict and nullable fail fast                         *)
(***************************************************************************)
FailFastKinds == {"object", "array", "dict", "nullable"}

\* the parse a recorded call stands for
Replay(call) == Parse(heap, call.p, call.input, call.context)

\* the positions, in the list of the calls a parse made, of the calls the
\* parser made itself: each is followed by the calls its child made
RECURSIVE DirectCalls(_, _)
DirectCalls(calls, i) ==
    IF i > Len(calls) THEN <<>>
    ELSE <<i>> \o DirectCalls(calls, i + 1 + Len(Replay(calls[i]).calls))

Children == DirectCalls(Outcome.calls, 1)

Child(j) == Outcome.calls[Children[j]]

\* the declared field the j-th child call of object.parse was made for
FieldsOfChild(j) ==
    {f \in 1..Len(Root.keys) :
        /\ Child(j).p = Root.ids[f]
        /\ Child(j).input = GetKey(last.input, Root.keys[f])
        /\ Child(j).context = FieldContext(last.context.name, Root.keys[f])}

\* the list array.parse walks: the input, or the one-element list of the
\* input when maybeSingle wraps it
Walked ==
    IF last.input.t # "array" /\ Root.options.maybeSingle THEN <<last.input>>
    ELSE last.input.xs

\* the child calls were made in traversal order: fields in declaration
\* order, elements in index order, keys in enumeration order with the key
\* before its value
InTraversalOrder ==
    CASE Root.kind = "object" ->
            /\ \A j \in 1..Len(Children) : FieldsOfChild(j) # {}
            /\ \A j \in 1..(Len(Children) - 1) :
                  \A f \in FieldsOfChild(j), g \in FieldsOfChild(j + 1) : f < g
      [] Root.kind = "array" ->
            \A j \in 1..Len(Children) :
               /\ Child(j).p = Root.ids[1]
               /\ j <= Len(Walked)
               /\ Child(j).input = Walked[j]
      [] Root.kind = "dict" ->
            \A j \in 1..Len(Children) :
               LET entry == (j + 1) \div 2
               IN  /\ entry <= Len(OwnKeys(last.input))
                   /\ IF j % 2 = 1
                      THEN /\ Child(j).p = Root.ids[1]
                           /\ Child(j).input = Str(OwnKeys(last.input)[entry])
                      ELSE /\ Child(j).p = Root.ids[2]
                           /\ Child(j).input = last.input.xs[entry]
      [] Root.kind = "nullable" ->
            /\ Len(Children) <= 1
            /\ \A j \in 1..Len(Children) :
                  Child(j).p = Root.ids[1] /\ Child(j).input = last.input

\* C24: object, array, dict and nullable parse their children in traversal
\* order, and when a child fails the parse throws the error of that child,
\* parses no child after it and returns no value
C24_FailFast ==
    IsParse /\ Root.kind \in FailFastKinds
    => /\ InTraversalOrder
       /\ \A j \in 1..Len(Children) :
             LET r == Replay(Child(j))
             IN  ~r.ok
                 => /\ j = Len(Children)
                    /\ Len(Outcome.calls) = Children[j] + Len(r.calls)
                    /\ ~Outcome.ok
                    /\ Outcome.err = r.err
                    /\ Outcome.value = Undefined

\* an object parser of two fields was given an input with both keys, the
\* first field failed and the second was not parsed
C24_Witness ==
    /\ IsParse
    /\ Root.kind = "object"
    /\ Len(Root.keys) = 2
    /\ HasKey(last.input, Root.keys[2])
    /\ Len(Children) = 1
    /\ FieldsOfChild(1) = {1}
    /\ ~Replay(Child(1)).ok
    /\ Outcome.err = Replay(Child(1)).err

(***************************************************************************)
(* C25: the samples inferFromSampleValue accepts                           *)
(***************************************************************************)
InferCalled == last.op = "inferFromSampleValue"

SampleKinds == {"string", "number", "NaN", "boolean", "date", "array", "object"}

\* the sample is built only of strings, numbers, booleans, Dates, arrays
\* and plain objects, at every depth
RECURSIVE BuiltOnlyOf(_)
BuiltOnlyOf(value) ==
    /\ value.t \in SampleKinds
    /\ \A i \in 1..Len(value.xs) : BuiltOnlyOf(value.xs[i])

\* the kind of parser the claim names for a sample
KindFor(value) ==
    CASE value.t = "number" -> IF value.s = <<>> THEN "int" ELSE "float"
      [] value.t = "NaN" -> "float"
      [] OTHER -> value.t

\* the parser at p is of the kind named for the sample, the element parser
\* of an array is the one for its first element
RECURSIVE KindsMatch(_, _)
KindsMatch(p, value) ==
    /\ heap[p].kind = KindFor(value)
    /\ value.t = "array" => KindsMatch(heap[p].ids[1], value.xs[1])

\* C25 as stated: a parser of the named kind is returned for every sample
\* built only of strings, numbers, booleans, Dates, arrays and objects, an
\* object parser has one field per own key of its sample, and every other
\* sample makes inferFromSampleValue throw
C25_Stated ==
    InferCalled
    => /\ last.result.ok <=> BuiltOnlyOf(last.input)
       /\ last.result.ok
          => /\ KindsMatch(last.p, last.input)
             /\ last.input.t = "object" => Len(Root.keys) = Len(last.input.ks)

\* the key takes its list as the list of an enum: the run of recognised
\* suffixes at its end has '$enum' or '$enums' in it
EnumKey(key, val) == val.t = "array" /\ "enum" \in SuffixKinds(key, val)

\* the values inference visits are all of a supported kind: the sample,
\* the first element of an array (undefined for an empty array), and the
\* value of every key of an object but the list of an enum key
RECURSIVE Visited(_)
Visited(value) ==
    CASE value.t = "array" -> value.xs # <<>> /\ Visited(value.xs[1])
      [] value.t = "object" ->
            \A i \in 1..Len(value.ks) :
                EnumKey(value.ks[i], value.xs[i]) \/ Visited(value.xs[i])
      [] OTHER -> value.t \in SampleKinds

\* the field names the keys of an object sample decode to
DecodedNames(value) ==
    {CanonicalName(value.ks[i], value.xs[i]) : i \in 1..Len(value.ks)}

\* C25 amended: inferFromSampleValue returns a parser of the named kind
\* exactly when every value it visits is a string, number, boolean, Date,
\* non-empty array or plain object, and else throws when it is called; the
\* object parser has one field per decoded field name
C25_Infer ==
    InferCalled
    => /\ last.result.ok <=> Visited(last.input)
       /\ last.result.ok
          => /\ last.p = Len(heap)
             /\ KindsMatch(last.p, last.input)
             /\ last.input.t = "object"
                => /\ Len(Root.keys) = Cardinality(DecodedNames(last.input))
                   /\ {Root.keys[i] : i \in 1..Len(Root.keys)}
                         = DecodedNames(last.input)
       /\ ~last.result.ok
          => /\ last.p = 0
             /\ last.result.err.message[1] = "unsupported sample value:"

\* inference returned an array parser of strings for a list whose second
\* element is null
C25_Witness ==
    /\ InferCalled
    /\ last.input = Arr(<<Str(<<"x">>), Null>>)
    /\ last.result.ok
    /\ Root.kind = "array"
    /\ heap[Root.ids[1]].kind = "string"

(***************************************************************************)
(* C26: the numbers number, int, id and float return                       *)
(***************************************************************************)
NumberKinds == {"number", "int", "id", "float"}

\* the lower bound of the parser built last, None when it has none
MinOf(parser) == IF parser.kind = "id" THEN 1 ELSE parser.options.min

\* C26: a value returned by number, int, id or float is a number that is
\* not NaN, not below min and not above max (id: 1 or more), also after
\* the rounding of toFixed or toPrecision
C26_InRange ==
    IsParse /\ Root.kind \in NumberKinds /\ Outcome.ok
    => /\ Outcome.value.t = "number"
       /\ MinOf(Root) # None => ~LessThan(Outcome.value, MinOf(Root))
       /\ Root.options.max # None => ~GreaterThan(Outcome.value, Root.options.max)

(***************************************************************************)
(* C28: the field names of a type signature and the keys parse reads       *)
(***************************************************************************)
\* the positions in a type signature where the line of a field of the
\* outermost object begins
FieldLines(type) ==
    {j \in 1..(Len(type) - 2) :
        type[j] = "\n" /\ type[j + 1] = "  " /\ type[j + 2] \notin {"  ", "}"}}

\* where the name on the line at j ends: the position of ':' or '?:'
MarkOf(type, j) ==
    CHOOSE k \in (j + 2)..Len(type) :
        /\ type[k] \in {":", "?:"}
        /\ \A m \in (j + 2)..(k - 1) : type[m] \notin {":", "?:"}

\* the name on the line at j, without its quotes
NameOf(type, j) ==
    LET name == SubSeq(type, j + 2, MarkOf(type, j) - 1)
    IN  IF Len(name) >= 2 /\ name[1] = "'" /\ name[Len(name)] = "'"
        THEN SubSeq(name, 2, Len(name) - 1)
        ELSE name

\* the fields a signature shows: the name and whether it carries '?'
ShownFields(type) ==
    {<<NameOf(type, j), type[MarkOf(type, j)] = "?:">> : j \in FieldLines(type)}

\* the keys object.parse reads, each with whether the parse leaves the
\* field out when the key is absent (a checkbox field, which reads an
\* absent key as false, counts as read and required)
ReadFields(parser) ==
    {<<parser.keys[i], isOptional(heap[parser.ids[i]])>> : i \in 1..Len(parser.keys)}

\* C28: the fields the type of an object parser shows are the keys its
\* parse reads, and a field carries '?' exactly when its key may be absent;
\* the parser never reports a key missing that its type does not show as
\* required
C28_Signature ==
    IsParse /\ Root.kind = "object"
    => /\ ShownFields(TypeRead(heap, last.p)) = ReadFields(Root)
       /\ \A i \in 1..Len(Root.keys) :
             (/\ ~Outcome.ok
              /\ Outcome.err.name = last.context.name
              /\ Outcome.err.reason = <<"missing">> \o Quote(Root.keys[i]))
             => <<Root.keys[i], FALSE>> \in ShownFields(TypeRead(heap, last.p))

(***************************************************************************)
(* C29: the prefix and the suffix of the context in a union error          *)
(***************************************************************************)
\* how often part occurs in text as a run of consecutive tokens
Occurrences(text, part) ==
    Cardinality({i \in 0..(Len(text) - Len(part)) :
                    SubSeq(text, i + 1, i + Len(part)) = part})

\* the parse threw the error or.parse builds from the errors of its
\* candidates
UnionError == IsParse /\ ~Outcome.ok /\ Outcome.err.errors # <<>>

\* C29: the message of a union error thrown under a context with a type
\* prefix or a reason suffix contains the prefix once and the suffix once
C29_OncePerMessage ==
    UnionError
    => /\ Outcome.err.typePrefix # <<>>
          => Occurrences(Outcome.err.message, Outcome.err.typePrefix) = 1
       /\ Outcome.err.reasonSuffix # <<>>
          => Occurrences(Outcome.err.message, Outcome.err.reasonSuffix) = 1

(***************************************************************************)
(* C30: a parser behaves as it was built                                   *)
(***************************************************************************)
\* the object parser at q reads the same type and parses every input alike
\* on the heaps h and g
SameObject(h, g, q) ==
    /\ TypeRead(h, q) = TypeRead(g, q)
    /\ \A x \in FlatObjects \cup Probes : Behaviour(h, q, x) = Behaviour(g, q, x)

\* C30: no library call changes the type or the parse outcomes of an
\* object parser built before it
C30_Fixed ==
    [][\A q \in 1..Len(heap) :
          heap[q].kind = "object" => q <= Len(heap') /\ SameObject(heap, heap', q)]_vars

====
